---- MODULE Spec2Model ----
(***************************************************************************)
(* The stack lifecycle orchestrator of firefly-cli.                        *)
(*                                                                         *)
(* The repository holds two generations of the orchestrator:               *)
(*   - StackManager (src/unnamed/part_002): split init/runtime trees,      *)
(*     pluggable blockchain and token providers;                           *)
(*   - Stack (src/internal/stacks/stack.go): one stack directory with a    *)
(*     data subdirectory, geth only.                                       *)
(* The variable gen says which generation's code operates the stack; the   *)
(* definitions of the Stack generation carry the prefix Stack_.            *)
(*                                                                         *)
(* A command (init, start, stop, reset, remove) is a sequence of steps,    *)
(* one per external call (container runtime, file system, provider hook,   *)
(* HTTP); pc is the position of the single control thread.  The outcome of *)
(* every external call is an input chosen by the environment.              *)
(***************************************************************************)
EXTENDS Integers, Sequences, FiniteSets, TLC

\* ------------------------------------------------------------------ bounds
MaxMembers == 2
MaxTokens == 1

\* Inputs of init: the two base ports.
ServicesBasePorts == {5100}
FireFlyBasePorts == {5000}

VARIABLES
    gen,            \* "StackManager" | "Stack": the generation of the code
    stackExists,    \* <stack dir>/stack.json exists
    Stack,          \* the content of stack.json (the persisted Stack record)
    initTree,       \* the init tree: manifest and per-member config templates
    runtimeTree,    \* the runtime tree (StackManager generation)
    dataDir,        \* <stack dir>/data (Stack generation): "absent" | "skeleton" | "certs"
    contractsDir,   \* <stack dir>/contracts exists (Stack generation)
    containers,     \* "none" | "up" | "stopped"
    volumes,        \* the docker volumes of the stack that exist
    listening,      \* host ports that accept a connection during this command
    op,             \* the command in progress or last finished
    options,        \* StartOptions of the command
    pc,             \* position of the control thread; "idle" between commands
    frames,         \* return positions of the calls in progress
    ret,            \* the error returned by the last call that returned
    hasBeenRun,     \* StartStack's local: the run-state marker as read
    err,            \* StartStack's local err
    tokIdx,         \* index of the token-provider loops
    fireflyCoreEntrypoints, \* StackManager.fireflyCoreEntrypoints (the cache)
    trace,          \* the calls of this command, in order, with their outcome
    result,         \* the error the last command returned (<<>> is nil)
    afterInit,      \* the init tree as InitStack left it
    last            \* the previous command: "rolledBack" (a start whose setup was
                    \* rolled back), "init" (a successful init), "stopped" (a stop
                    \* of a stack that has run) or "other"
VARIABLES
    alloc           \* the port allocator: the init options it is given and the
                    \* members InitStack's loop has created so far
VARIABLES
    wait            \* one call of waitForFireflyStart: its port, its locals, its
                    \* position, and what the probes have met so far
VARIABLES
    reg             \* one call of registerFireflyIdentities: the member it is at,
                    \* its locals, and what the members' APIs have accepted
VARIABLES
    host            \* the machine with two stack names on it: the stack
                    \* directories, the compose projects, and what the last
                    \* operation on each name returned
VARIABLES
    invocation      \* one call of a function that a component model follows step
                    \* by step: the function (fn), its arguments and locals, its
                    \* position, and what it has met so far

vars == <<gen, stackExists, Stack, initTree, runtimeTree, dataDir, contractsDir,
          containers, volumes, listening, op, options, pc, frames, ret,
          hasBeenRun, err, tokIdx, fireflyCoreEntrypoints, trace, result,
          afterInit, last, alloc, wait, reg, host, invocation>>

\* The variables of the command model, and those of the component models.
main == <<gen, stackExists, Stack, initTree, runtimeTree, dataDir, contractsDir,
          containers, volumes, listening, op, options, pc, frames, ret,
          hasBeenRun, err, tokIdx, fireflyCoreEntrypoints, trace, result,
          afterInit, last>>
sub == <<alloc, wait, reg, host, invocation>>

disk == <<stackExists, Stack, initTree, runtimeTree, dataDir, contractsDir>>
docker == <<containers, volumes>>
locals == <<hasBeenRun, err, tokIdx, fireflyCoreEntrypoints>>

\* ------------------------------------------------------------------ values
nil == <<>>

NoTree == [exists |-> FALSE, compose |-> <<>>, config |-> <<>>, dependsOn |-> <<>>]

NoStack == [Members |-> <<>>, ExposedBlockchainPort |-> 0,
            PrometheusEnabled |-> FALSE, ExposedPrometheusPort |-> 0,
            BlockchainProvider |-> "", TokenProviders |-> <<>>,
            ContractAddress |-> ""]

Range(s) == {s[i] : i \in DOMAIN s}

\* The entry point docker-compose has for a member's firefly_core service.
NoopEntryPoint == "/bin/sh -c exit 0"
DefaultEntryPoint == "firefly"

\* A member's firefly_core_<id>.yml as Init writes it: the leaves of the YAML
\* document by their path.
WriteFireflyConfig ==
    ("node.identity" :> "member") @@ ("blockchain.ethereum.ethconnect.url" :> "connector")
    @@ ("blockchain.ethereum.ethconnect.instance" :> "/contracts/firefly")

\* The member counts the init command hands to InitStack: it accepts a count
\* greater than zero only.
MemberCounts == 1..MaxMembers

\* fmt.Sprint(i): the identifier InitStack gives member i.
Sprint_zero(i) == "0"
Sprint(i) == ToString(i)

\* ------------------------------------------------------------------ ports
PrometheusPorts == {9090}

createMember(index, servicesBase, fireflyBase, prometheus, nTokens, external) ==
    LET serviceBase == servicesBase + (index * 100)
        nextPort == serviceBase + 8
        tokBase == IF prometheus THEN nextPort + 1 ELSE nextPort
    IN [ID |-> Sprint(index),
        Index |-> index,
        Address |-> <<"0x", "address of key", index>>,
        PrivateKey |-> <<"0x", "key", index>>,
        ExposedFireflyPort |-> fireflyBase + index,
        ExposedFireflyAdminPort |-> serviceBase + 1,
        ExposedConnectorPort |-> serviceBase + 2,
        ExposedUIPort |-> serviceBase + 3,
        ExposedPostgresPort |-> serviceBase + 4,
        ExposedDataexchangePort |-> serviceBase + 5,
        ExposedIPFSApiPort |-> serviceBase + 6,
        ExposedIPFSGWPort |-> serviceBase + 7,
        ExposedFireflyMetricsPort |-> IF prometheus THEN nextPort ELSE 0,
        ExposedTokensPorts |-> [k \in 1..nTokens |-> tokBase + k - 1],
        External |-> external]

\* json.MarshalIndent of a Member: the fields by their json name, a field tagged
\* omitempty left out when it is empty.  (The ports are marshalled likewise.)
MarshalMember(m) ==
    LET fields == ("id" :> <<m.ID>>) @@ ("index" :> <<m.Index>>)
                  @@ ("address" :> m.Address) @@ ("privateKey" :> m.PrivateKey)
                  @@ ("external" :> IF m.External THEN <<TRUE>> ELSE <<>>)
    IN [k \in {f \in DOMAIN fields : fields[f] # <<>>} |-> fields[k]]

\* writeStackConfig: stack.json is json.MarshalIndent(s.Stack).
writeStackConfig(stack) == [i \in DOMAIN stack.Members |-> MarshalMember(stack.Members[i])]

\* The ports of one member, in the order checkPortsAvailable appends them.
memberPorts(m) ==
    <<m.ExposedDataexchangePort, m.ExposedConnectorPort>>
    \o (IF ~m.External
        THEN <<m.ExposedFireflyAdminPort, m.ExposedFireflyPort, m.ExposedFireflyMetricsPort>>
        ELSE <<>>)
    \o <<m.ExposedIPFSApiPort, m.ExposedIPFSGWPort, m.ExposedPostgresPort, m.ExposedUIPort>>
    \o m.ExposedTokensPorts

RECURSIVE allMemberPorts(_)
allMemberPorts(ms) ==
    IF ms = <<>> THEN <<>> ELSE memberPorts(Head(ms)) \o allMemberPorts(Tail(ms))

portList(s) ==
    <<s.ExposedBlockchainPort>> \o allMemberPorts(s.Members)
    \o (IF s.PrometheusEnabled THEN <<s.ExposedPrometheusPort>> ELSE <<>>)

\* checkPortAvailable: a connection that is accepted means "not available".
checkPortAvailable_always(port) == TRUE
checkPortAvailable(port) == port \notin listening

portError(port) == <<"port is unavailable", ToString(port)>>

\* checkPortsAvailable: the error for the first port of the list that is in
\* use, nil when every port is available.
\* A port check that finds every port free.
firstUnavailable_none(ports) == nil

RECURSIVE firstUnavailable(_)
firstUnavailable(ports) ==
    IF ports = <<>> THEN nil
    ELSE IF ~checkPortAvailable(Head(ports)) THEN portError(Head(ports))
    ELSE firstUnavailable(Tail(ports))

checkPortsAvailable == firstUnavailable(portList(Stack))

\* ------------------------------------------------------------------ control
\* The command's thread is inside runFirstTimeSetup.
InSetup ==
    \/ "StartStack_afterSetup" \in Range(frames)
    \/ "Stack_StartStack_afterSetup" \in Range(frames)

\* arg: the working directory ("init", "runtime") or the index of the call.
Log(fn, call, arg, ok) ==
    trace' = Append(trace, [call |-> call, ok |-> ok, in |-> fn, arg |-> arg])

Goto(label) == pc' = label /\ UNCHANGED <<frames, ret, result>>

Call(label, returnTo) ==
    pc' = label /\ frames' = <<returnTo>> \o frames /\ UNCHANGED <<ret, result>>

\* Return e to the caller; the outermost return ends the command with result e.
Return(e) ==
    IF frames = <<>>
    THEN pc' = "done" /\ result' = e /\ UNCHANGED <<frames, ret>>
    ELSE pc' = Head(frames) /\ frames' = Tail(frames) /\ ret' = e /\ UNCHANGED result

\* A command starts: cmd/*.go loads the stack and calls the operation.
Begin(o, opts, first) ==
    /\ pc = "idle"
    /\ op' = o
    /\ options' = opts
    /\ pc' = first
    /\ frames' = <<>>
    /\ ret' = nil
    /\ hasBeenRun' = FALSE
    /\ err' = nil
    /\ tokIdx' = 1
    /\ fireflyCoreEntrypoints' = <<>>

NoOptions == [NoRollback |-> FALSE, NoPull |-> FALSE]

\* LoadStack succeeds exactly when CheckExists finds stack.json.
CheckExists == stackExists

\* ListStacks: the directories of StacksDir for which CheckExists holds.
ListStacks == IF CheckExists THEN {"stack"} ELSE {}

Managed(s) == {i \in DOMAIN s.Members : ~s.Members[i].External}
\* A selection that takes every member for an external one.
External_all(s) == DOMAIN s.Members
External(s) == {i \in DOMAIN s.Members : s.Members[i].External}

\* ------------------------------------------------------------------ init
\* The init options tried: <<PrometheusEnabled, ContractAddress, the entry point
\* the manifest gives the FireFly core containers, BlockchainProvider, the kind
\* of the TokenProviders>>; every pair of the first three values once, and one
\* kind of each sort that the selection does not know.
InitOptions ==
    {<<FALSE, "", "", "geth", "erc1155">>,
     <<TRUE, "", "custom", "geth", "erc1155">>,
     <<FALSE, "0xc0ffee", "custom", "fabric", "erc777">>,
     <<TRUE, "0xc0ffee", "", "besu", "erc20_erc721">>,
     <<FALSE, "", "", "corda", "erc1155">>}

\* getBlockchainProvider: the provider of the recorded kind, "nil" for a kind
\* that is none of the three.
getBlockchainProvider(kind) ==
    IF kind \in {"geth", "besu", "fabric"} THEN kind ELSE "nil"

\* getITokenProviders: one provider per recorded kind, nil (no provider at all)
\* as soon as one kind is neither of the two.
getITokenProviders(kinds) ==
    IF \A k \in DOMAIN kinds : kinds[k] \in {"erc1155", "erc20_erc721"}
    THEN kinds ELSE <<>>

\* s.blockchainProvider and s.tokenProviders as LoadStack selects them from the
\* stack it has read.
blockchainProvider == getBlockchainProvider(Stack.BlockchainProvider)
tokenProviders == getITokenProviders(Stack.TokenProviders)

\* GetDockerServiceDefinitions of the blockchain provider: the services by name,
\* each with whether it defines a health check.  geth: its node, then ethconnect
\* per member; fabric: its three nodes, then fabconnect per member, which has a
\* health check.  (The besu provider is not among the sources; it is given the
\* ethconnect services alone.)
Service(name, healthCheck) == [ServiceName |-> name, HealthCheck |-> healthCheck]

GetDockerServiceDefinitions(stack) ==
    LET perMember(name, healthCheck) ==
            [i \in DOMAIN stack.Members |-> Service(<<name, stack.Members[i].ID>>, healthCheck)]
    IN CASE stack.BlockchainProvider = "geth" ->
                <<Service(<<"geth">>, FALSE)>> \o perMember("ethconnect", FALSE)
         [] stack.BlockchainProvider = "fabric" ->
                <<Service(<<"fabric_ca">>, FALSE), Service(<<"fabric_orderer">>, FALSE),
                  Service(<<"fabric_peer">>, FALSE)>> \o perMember("fabconnect", TRUE)
         [] OTHER -> perMember("ethconnect", FALSE)

\* extraServices: the provider's services, then those of every token provider
\* (one service per provider, named by its index; the token providers' packages
\* are not among the sources, their service is taken without a health check).
extraServices(stack) ==
    GetDockerServiceDefinitions(stack)
    \o [k \in DOMAIN getITokenProviders(stack.TokenProviders) |->
          Service(<<"tokens", ToString(k - 1)>>, FALSE)]

\* The dependency loop of InitStack: every member that has a firefly_core
\* service is made to depend on every extra service, on its health when the
\* service has a health check, on its start otherwise.
DependsOn_firstMember(members, services) ==
    [i \in DOMAIN members |->
        IF members[i].External \/ i > 1 THEN <<>>
        ELSE [k \in DOMAIN services |-> "service_started"]]
DependsOn(members, services) ==
    [i \in DOMAIN members |->
        IF members[i].External THEN <<>>
        ELSE [k \in DOMAIN services |->
                IF services[k].HealthCheck THEN "service_healthy" ELSE "service_started"]]

\* StackManager.InitStack with writeConfig; failAt is the call that fails.
InitStack ==
    /\ gen = "StackManager"
    /\ pc = "idle"
    /\ ~CheckExists
    /\ \E memberCount \in MemberCounts, nTokens \in 0..MaxTokens,
          o \in InitOptions,
          servicesBase \in ServicesBasePorts, fireflyBase \in FireFlyBasePorts,
          failAt \in {"", "manifest", "writeDockerCompose", "WriteConfig"} :
        \E externalProcesses \in 0..memberCount, prometheusPort \in PrometheusPorts :
          LET prometheus == o[1]
              address == o[2]
              entrypoint == o[3]
              members == [i \in 1..memberCount |->
                            createMember(i - 1, servicesBase, fireflyBase, prometheus,
                                         nTokens, (i - 1) < externalProcesses)]
              stack == [Members |-> members,
                        ExposedBlockchainPort |-> servicesBase,
                        PrometheusEnabled |-> prometheus,
                        ExposedPrometheusPort |-> IF prometheus THEN prometheusPort ELSE 0,
                        BlockchainProvider |-> o[4],
                        TokenProviders |-> [k \in 1..nTokens |-> o[5]],
                        ContractAddress |-> address]
              tree == [exists |-> TRUE,
                       compose |-> [i \in 1..memberCount |->
                                      IF members[i].External THEN "absent" ELSE entrypoint],
                       config |-> [i \in 1..memberCount |-> WriteFireflyConfig],
                       dependsOn |-> DependsOn(members, extraServices(stack))]
          IN /\ Begin("init", NoOptions, "done")
             /\ trace' = <<>>
             /\ IF failAt = "manifest"
                THEN /\ result' = <<failAt>>
                     /\ UNCHANGED <<Stack, stackExists, initTree, afterInit>>
                ELSE IF getBlockchainProvider(o[4]) = "nil"
                THEN \* s.blockchainProvider.GetDockerServiceDefinitions() on nil
                     /\ result' = <<"panic: nil pointer dereference">>
                     /\ UNCHANGED <<Stack, stackExists, initTree, afterInit>>
                ELSE IF failAt = "writeDockerCompose"
                THEN \* ensureInitDirectories has made the directories
                     /\ result' = <<failAt>>
                     /\ initTree' = [NoTree EXCEPT !.exists = TRUE]
                     /\ UNCHANGED <<Stack, stackExists, afterInit>>
                ELSE \* writeConfig: the configs, stack.json, then the provider's
                     \* WriteConfig, which is what fails when failAt says so
                     /\ result' = IF failAt = "" THEN nil ELSE <<failAt>>
                     /\ Stack' = stack
                     /\ stackExists' = TRUE
                     /\ initTree' = tree
                     /\ afterInit' = tree
             /\ UNCHANGED <<gen, runtimeTree, dataDir, contractsDir, docker, listening, last, sub>>

\* ------------------------------------------------------------------ start
\* cmd start: LoadStack, then StackManager.StartStack.  The environment decides
\* which host ports accept a connection while the command runs.
ListeningChoices(s) ==
    {{}} \cup {{p} : p \in {s.Members[Len(s.Members)].ExposedUIPort,
                            s.Members[1].ExposedFireflyAdminPort}}

StartCmd ==
    /\ gen = "StackManager"
    /\ CheckExists
    /\ \E noRollback \in BOOLEAN :
         Begin("start", [NoRollback |-> noRollback, NoPull |-> FALSE],
               "StartStack_checkPortsAvailable")
    /\ result' = nil
    /\ trace' = <<>>
    /\ listening' \in ListeningChoices(Stack)
    /\ UNCHANGED <<gen, disk, docker, afterInit, last, sub>>

StartStack_checkPortsAvailable ==
    /\ pc = "StartStack_checkPortsAvailable"
    /\ Log("StartStack", "checkPortsAvailable", "", checkPortsAvailable = nil)
    /\ IF checkPortsAvailable # nil
       THEN Return(checkPortsAvailable)
       ELSE Goto("StartStack_StackHasRunBefore")
    /\ UNCHANGED <<gen, disk, docker, listening, op, options, locals, afterInit, last, sub>>

\* StackManager.StackHasRunBefore (new file structure): the runtime directory exists.
StackHasRunBefore == runtimeTree.exists

StartStack_StackHasRunBefore ==
    /\ pc = "StartStack_StackHasRunBefore"
    /\ \E statOk \in BOOLEAN :
         IF ~statOk
         THEN /\ Return(<<"stat">>)
              /\ UNCHANGED <<hasBeenRun, trace>>
         ELSE /\ hasBeenRun' = StackHasRunBefore
              /\ IF ~StackHasRunBefore
                 THEN /\ Call("runFirstTimeSetup_Copy", "StartStack_afterSetup")
                      /\ Log("StartStack", "runFirstTimeSetup", "", TRUE)
                 ELSE /\ Call("runStartupSequence_PreStart", "StartStack_afterStartup")
                      /\ Log("StartStack", "runStartupSequence", "", TRUE)
    /\ UNCHANGED <<gen, disk, docker, listening, op, options, err, tokIdx,
                   fireflyCoreEntrypoints, afterInit, last, sub>>

\* A StartStack that rolls back whatever the setting.
NoRollback_ignored(opts) == FALSE

\* if options.NoRollback { return err }
NoRollback(opts) == opts.NoRollback

\* err := s.runFirstTimeSetup(verbose, options)
\* if err != nil { if options.NoRollback { return err } else { ResetStack ... } }
\* and then, with no else, the steady-state sequence.
StartStack_afterSetup ==
    /\ pc = "StartStack_afterSetup"
    /\ err' = ret
    /\ IF ret # nil
       THEN IF NoRollback(options)
            THEN /\ Return(ret)
                 /\ UNCHANGED trace
            ELSE /\ Call("ResetStack_down", "StartStack_afterReset")
                 /\ Log("StartStack", "ResetStack", "", TRUE)
       ELSE /\ Call("runStartupSequence_PreStart", "StartStack_afterStartup")
            /\ Log("StartStack", "runStartupSequence", "", TRUE)
    /\ UNCHANGED <<gen, disk, docker, listening, op, options, hasBeenRun, tokIdx,
                   fireflyCoreEntrypoints, afterInit, last, sub>>

\* A report of the rollback's outcome alone.
finalErr_outcomeOnly(cause, resetErr) ==
    IF resetErr # nil
    THEN <<"error resetting stack">> \o resetErr
    ELSE <<"all changes rolled back">>

\* finalErr: the cause, then the outcome of the rollback.
finalErr(cause, resetErr) ==
    IF resetErr # nil
    THEN cause \o <<"error resetting stack">> \o resetErr
    ELSE cause \o <<"all changes rolled back">>

StartStack_afterReset ==
    /\ pc = "StartStack_afterReset"
    /\ Return(finalErr(err, ret))
    /\ UNCHANGED <<gen, disk, docker, listening, op, options, locals, trace, afterInit, last, sub>>

StartStack_afterStartup ==
    /\ pc = "StartStack_afterStartup"
    /\ IF ret # nil
       THEN Return(ret)
       ELSE Call("ensureFireflyNodesUp", "StartStack_return")
    /\ UNCHANGED <<gen, disk, docker, listening, op, options, locals, trace, afterInit, last, sub>>

\* return s.ensureFireflyNodesUp(true)
StartStack_return ==
    /\ pc = "StartStack_return"
    /\ Return(ret)
    /\ UNCHANGED <<gen, disk, docker, listening, op, options, locals, trace, afterInit, last, sub>>

\* ------------------------------------------------------------------ first-time setup
\* The context of a call of a function that both paths use.
Fn == IF InSetup THEN "runFirstTimeSetup" ELSE "StartStack"

CopyOf(tree) == [tree EXCEPT !.exists = TRUE]

\* copy.Copy(s.Stack.InitDir, s.Stack.RuntimeDir)
runFirstTimeSetup_Copy ==
    /\ pc = "runFirstTimeSetup_Copy"
    /\ \E ok \in BOOLEAN :
         /\ Log("runFirstTimeSetup", "Copy", "runtime", ok)
         /\ IF ok
            THEN /\ runtimeTree' = CopyOf(initTree)
                 /\ Goto("runFirstTimeSetup_disableFireflyCoreContainers")
            ELSE /\ runtimeTree' \in {runtimeTree, CopyOf(initTree)}
                 /\ Return(<<"copy">>)
    /\ UNCHANGED <<gen, stackExists, Stack, initTree, dataDir, contractsDir, docker,
                   listening, op, options, locals, afterInit, last, sub>>

\* The manifest with the entry point of every managed member replaced by a no-op.
disableFireflyCoreContainers(compose) ==
    [i \in DOMAIN compose |->
        IF ~Stack.Members[i].External THEN NoopEntryPoint ELSE compose[i]]

\* The entry points disableFireflyCoreContainers caches, by member index.
cachedEntrypoints(compose) ==
    [i \in DOMAIN compose |-> IF ~Stack.Members[i].External THEN compose[i] ELSE ""]

\* A disableFireflyCoreContainers that is handed InitDir as its working directory.
runFirstTimeSetup_disableFireflyCoreContainers_InitDir ==
    /\ pc = "runFirstTimeSetup_disableFireflyCoreContainers"
    /\ \E ok \in BOOLEAN :
         /\ Log("runFirstTimeSetup", "disableFireflyCoreContainers", "init", ok)
         /\ IF ok
            THEN /\ fireflyCoreEntrypoints' = cachedEntrypoints(initTree.compose)
                 /\ initTree' = [initTree EXCEPT
                                   !.compose = disableFireflyCoreContainers(@)]
                 /\ Goto("runFirstTimeSetup_FirstTimeSetup")
            ELSE /\ UNCHANGED <<fireflyCoreEntrypoints, initTree>>
                 /\ Return(<<"disableFireflyCoreContainers">>)
    /\ UNCHANGED <<gen, stackExists, Stack, runtimeTree, dataDir, contractsDir, docker,
                   listening, op, options, hasBeenRun, err, tokIdx, afterInit, last, sub>>

runFirstTimeSetup_disableFireflyCoreContainers ==
    /\ pc = "runFirstTimeSetup_disableFireflyCoreContainers"
    /\ \E ok \in BOOLEAN :
         /\ Log("runFirstTimeSetup", "disableFireflyCoreContainers", "runtime", ok)
         /\ IF ok
            THEN /\ fireflyCoreEntrypoints' = cachedEntrypoints(runtimeTree.compose)
                 /\ runtimeTree' = [runtimeTree EXCEPT
                                      !.compose = disableFireflyCoreContainers(@)]
                 /\ Goto("runFirstTimeSetup_FirstTimeSetup")
            ELSE /\ UNCHANGED <<fireflyCoreEntrypoints, runtimeTree>>
                 /\ Return(<<"disableFireflyCoreContainers">>)
    /\ UNCHANGED <<gen, stackExists, Stack, initTree, dataDir, contractsDir, docker,
                   listening, op, options, hasBeenRun, err, tokIdx, afterInit, last, sub>>

\* s.blockchainProvider.FirstTimeSetup(): fills the provider's volumes.
runFirstTimeSetup_FirstTimeSetup ==
    /\ pc = "runFirstTimeSetup_FirstTimeSetup"
    /\ \E ok \in BOOLEAN :
         /\ Log("runFirstTimeSetup", "FirstTimeSetup", "", ok)
         /\ IF ok
            THEN /\ volumes' = volumes \cup {"provider"}
                 /\ Goto("runFirstTimeSetup_prometheus")
            ELSE /\ volumes' \in {volumes, volumes \cup {"provider"}}
                 /\ Return(<<"FirstTimeSetup">>)
    /\ UNCHANGED <<gen, disk, containers, listening, op, options, locals, afterInit, last, sub>>

\* if s.Stack.PrometheusEnabled { docker.CopyFileToVolume(prometheus_config ...) }
runFirstTimeSetup_prometheus ==
    /\ pc = "runFirstTimeSetup_prometheus"
    /\ IF Stack.PrometheusEnabled
       THEN \E ok \in BOOLEAN :
              /\ Log("runFirstTimeSetup", "CopyFileToVolume prometheus", "runtime", ok)
              /\ volumes' = IF ok THEN volumes \cup {"compose"} ELSE volumes
              /\ IF ok
                 THEN Goto("runFirstTimeSetup_copyDataExchangeConfigToVolumes")
                 ELSE Return(<<"CopyFileToVolume prometheus">>)
       ELSE /\ Goto("runFirstTimeSetup_copyDataExchangeConfigToVolumes")
            /\ UNCHANGED <<trace, volumes>>
    /\ UNCHANGED <<gen, disk, containers, listening, op, options, locals, afterInit, last, sub>>

runFirstTimeSetup_copyDataExchangeConfigToVolumes ==
    /\ pc = "runFirstTimeSetup_copyDataExchangeConfigToVolumes"
    /\ \E ok \in BOOLEAN :
         /\ Log("runFirstTimeSetup", "copyDataExchangeConfigToVolumes", "runtime", ok)
         /\ volumes' = volumes \cup {"compose"}
         /\ IF ok
            THEN Call("runStartupSequence_PreStart", "runFirstTimeSetup_afterStartup")
            ELSE Return(<<"copyDataExchangeConfigToVolumes">>)
    /\ UNCHANGED <<gen, disk, containers, listening, op, options, locals, afterInit, last, sub>>

\* ------------------------------------------------------------------ runStartupSequence
runStartupSequence_PreStart ==
    /\ pc = "runStartupSequence_PreStart"
    /\ \E ok \in BOOLEAN :
         /\ Log(Fn, "PreStart", "", ok)
         /\ IF ok THEN Goto("runStartupSequence_up") ELSE Return(<<"PreStart">>)
    /\ UNCHANGED <<gen, disk, docker, listening, op, options, locals, afterInit, last, sub>>

AllVolumes == {"provider", "compose"}

\* A bring-up whose error is dropped: PostStart follows whatever it returned.
runStartupSequence_up_errorDropped ==
    /\ pc = "runStartupSequence_up"
    /\ \E ok \in BOOLEAN :
         /\ Log(Fn, "up", "runtime", ok)
         /\ containers' = IF ok THEN "up" ELSE containers
         /\ volumes' = IF ok THEN AllVolumes ELSE volumes
    /\ Goto("runStartupSequence_PostStart")
    /\ UNCHANGED <<gen, disk, listening, op, options, locals, afterInit, last, sub>>

\* docker-compose -p <name> up -d in workingDir (both callers pass RuntimeDir)
runStartupSequence_up ==
    /\ pc = "runStartupSequence_up"
    /\ \E ok \in BOOLEAN :
         /\ Log(Fn, "up", "runtime", ok)
         /\ IF ok
            THEN /\ containers' = "up"
                 /\ volumes' = AllVolumes
                 /\ Goto("runStartupSequence_PostStart")
            ELSE /\ UNCHANGED <<containers, volumes>>
                 /\ Return(<<"up">>)
    /\ UNCHANGED <<gen, disk, listening, op, options, locals, afterInit, last, sub>>

runStartupSequence_PostStart ==
    /\ pc = "runStartupSequence_PostStart"
    /\ \E ok \in BOOLEAN :
         /\ Log(Fn, "PostStart", "", ok)
         /\ IF ok THEN Return(nil) ELSE Return(<<"PostStart">>)
    /\ UNCHANGED <<gen, disk, docker, listening, op, options, locals, afterInit, last, sub>>

\* ------------------------------------------------------------------ ensureFireflyNodesUp
\* For every external member: checkPortAvailable(port), and waitForFireflyStart
\* when nothing listens yet.  (Both callers pass firstTimeSetup = true: the admin port.)
ensureFireflyNodesUp ==
    /\ pc = "ensureFireflyNodesUp"
    /\ LET waitFor == {i \in External(Stack) :
                         checkPortAvailable(Stack.Members[i].ExposedFireflyAdminPort)}
       IN IF External(Stack) = {}
          THEN /\ Return(nil)
               /\ UNCHANGED trace
          ELSE \E started \in (IF waitFor = {} THEN {TRUE} ELSE BOOLEAN) :
                 /\ Log(Fn, "ensureFireflyNodesUp", "", started)
                 /\ IF started
                    THEN Return(nil)
                    ELSE Return(<<"waited for firefly to start">>)
    /\ UNCHANGED <<gen, disk, docker, listening, op, options, locals, afterInit, last, sub>>

\* ------------------------------------------------------------------ first-time setup, continued
runFirstTimeSetup_afterStartup ==
    /\ pc = "runFirstTimeSetup_afterStartup"
    /\ IF ret # nil
       THEN Return(ret) /\ UNCHANGED tokIdx
       ELSE Goto("runFirstTimeSetup_DeploySmartContracts") /\ tokIdx' = 1
    /\ UNCHANGED <<gen, disk, docker, listening, op, options, hasBeenRun, err,
                   fireflyCoreEntrypoints, trace, afterInit, last, sub>>

\* for i, tp := range s.tokenProviders { tp.DeploySmartContracts(i) }
runFirstTimeSetup_DeploySmartContracts ==
    /\ pc = "runFirstTimeSetup_DeploySmartContracts"
    /\ IF tokIdx <= Len(tokenProviders)
       THEN \E ok \in BOOLEAN :
              /\ Log("runFirstTimeSetup", "DeploySmartContracts", ToString(tokIdx - 1), ok)
              /\ IF ok
                 THEN Goto("runFirstTimeSetup_DeploySmartContracts") /\ tokIdx' = tokIdx + 1
                 ELSE Return(<<"DeploySmartContracts">>) /\ UNCHANGED tokIdx
       ELSE /\ Goto("runFirstTimeSetup_DeployFireFlyContract")
            /\ UNCHANGED <<trace, tokIdx>>
    /\ UNCHANGED <<gen, disk, docker, listening, op, options, hasBeenRun, err,
                   fireflyCoreEntrypoints, afterInit, last, sub>>

\* if s.Stack.ContractAddress == "" { s.blockchainProvider.DeployFireFlyContract() ... }
runFirstTimeSetup_DeployFireFlyContract ==
    /\ pc = "runFirstTimeSetup_DeployFireFlyContract"
    /\ IF Stack.ContractAddress = ""
       THEN \E ok \in BOOLEAN :
              /\ Log("runFirstTimeSetup", "DeployFireFlyContract", "", ok)
              /\ IF ok
                 THEN Goto("runFirstTimeSetup_patchFireFlyCoreConfigs")
                 ELSE Return(<<"DeployFireFlyContract">>)
       ELSE /\ Goto("runFirstTimeSetup_copyFireflyConfigToContainer")
            /\ UNCHANGED trace
    /\ UNCHANGED <<gen, disk, docker, listening, op, options, locals, afterInit, last, sub>>

\* patchFireFlyCoreConfigs rewrites the members' configs in order and stops at the
\* first one it cannot merge or write: the first n configs are patched.
\* newConfig := &core.FireflyConfig{Blockchain: blockchainConfig}, marshalled:
\* every empty field is omitted, the fragment holds what the deployment returned.
newConfig == ("blockchain.ethereum.ethconnect.instance" :> "deployed")

\* conflate: AddFiles(configFile), AddData(newConfigBytes), MarshalYAML: the
\* leaves of the data override those of the file, the other leaves stay.
merge(doc, data) ==
    [k \in DOMAIN doc \cup DOMAIN data |-> IF k \in DOMAIN data THEN data[k] ELSE doc[k]]

patchFireFlyCoreConfigs(config, n) ==
    [i \in DOMAIN config |-> IF i <= n THEN merge(config[i], newConfig) ELSE config[i]]

\* s.patchFireFlyCoreConfigs(verbose, configDir, newConfig): the error is dropped.
runFirstTimeSetup_patchFireFlyCoreConfigs ==
    /\ pc = "runFirstTimeSetup_patchFireFlyCoreConfigs"
    /\ \E n \in 0..Len(Stack.Members) :
         /\ Log("runFirstTimeSetup", "patchFireFlyCoreConfigs", "runtime",
                n = Len(Stack.Members))
         /\ runtimeTree' = [runtimeTree EXCEPT !.config = patchFireFlyCoreConfigs(@, n)]
    /\ Goto("runFirstTimeSetup_copyFireflyConfigToContainer")
    /\ UNCHANGED <<gen, stackExists, Stack, initTree, dataDir, contractsDir, docker,
                   listening, op, options, locals, afterInit, last, sub>>

\* for _, member := range s.Stack.Members { s.copyFireflyConfigToContainer(...) }
runFirstTimeSetup_copyFireflyConfigToContainer ==
    /\ pc = "runFirstTimeSetup_copyFireflyConfigToContainer"
    /\ IF Managed(Stack) # {}
       THEN \E ok \in BOOLEAN :
              /\ Log("runFirstTimeSetup", "copyFireflyConfigToContainer", "runtime", ok)
              /\ volumes' = volumes \cup {"compose"}
              /\ IF ok
                 THEN Goto("runFirstTimeSetup_enableFireflyCoreContainers")
                 ELSE Return(<<"copyFireflyConfigToContainer">>)
       ELSE /\ Goto("runFirstTimeSetup_enableFireflyCoreContainers")
            /\ UNCHANGED <<trace, volumes>>
    /\ UNCHANGED <<gen, disk, containers, listening, op, options, locals, afterInit, last, sub>>

\* A restoring that forgets the cache and gives every managed member the default.
enableFireflyCoreContainers_default(compose, cache) ==
    [i \in DOMAIN compose |->
        IF ~Stack.Members[i].External THEN DefaultEntryPoint ELSE compose[i]]

\* The manifest with every managed member's entry point restored: the cached
\* one if there was one, else the default "firefly".
enableFireflyCoreContainers(compose, cache) ==
    [i \in DOMAIN compose |->
        IF ~Stack.Members[i].External
        THEN (IF cache[i] # "" THEN cache[i] ELSE DefaultEntryPoint)
        ELSE compose[i]]

runFirstTimeSetup_enableFireflyCoreContainers ==
    /\ pc = "runFirstTimeSetup_enableFireflyCoreContainers"
    /\ \E ok \in BOOLEAN :
         /\ Log("runFirstTimeSetup", "enableFireflyCoreContainers", "runtime", ok)
         /\ IF ok
            THEN /\ runtimeTree' = [runtimeTree EXCEPT
                        !.compose = enableFireflyCoreContainers(@, fireflyCoreEntrypoints)]
                 /\ Goto("runFirstTimeSetup_up")
            ELSE /\ UNCHANGED runtimeTree
                 /\ Return(<<"enableFireflyCoreContainers">>)
    /\ UNCHANGED <<gen, stackExists, Stack, initTree, dataDir, contractsDir, docker,
                   listening, op, options, locals, afterInit, last, sub>>

\* docker.RunDockerComposeCommand(s.Stack.InitDir, ..., "up", "-d"): the error is dropped.
runFirstTimeSetup_up ==
    /\ pc = "runFirstTimeSetup_up"
    /\ \E ok \in BOOLEAN :
         /\ Log("runFirstTimeSetup", "up", "init", ok)
         /\ containers' = IF ok THEN "up" ELSE containers
         /\ volumes' = IF ok THEN AllVolumes ELSE volumes
    /\ Call("ensureFireflyNodesUp", "runFirstTimeSetup_afterNodesUp")
    /\ UNCHANGED <<gen, disk, listening, op, options, locals, afterInit, last, sub>>

runFirstTimeSetup_afterNodesUp ==
    /\ pc = "runFirstTimeSetup_afterNodesUp"
    /\ IF ret # nil
       THEN Return(ret)
       ELSE Goto("runFirstTimeSetup_registerFireflyIdentities")
    /\ UNCHANGED <<gen, disk, docker, listening, op, options, locals, trace, afterInit, last, sub>>

\* registerFireflyIdentities: what fails, and the error it returns for it.
\* A failure of the organization list, or of the node registration, returns nil.
registerFireflyIdentities(failure) ==
    CASE failure = "" -> nil
      [] failure = "register organization" -> <<"register organization">>
      [] failure = "list organizations" -> nil
      [] failure = "organization not found" -> <<"timeout error waiting to register">>
      [] failure = "register node" -> nil

RegistrationFailures ==
    {"", "register organization", "list organizations", "organization not found",
     "register node"}

runFirstTimeSetup_registerFireflyIdentities ==
    /\ pc = "runFirstTimeSetup_registerFireflyIdentities"
    /\ \E failure \in RegistrationFailures :
         /\ Log("runFirstTimeSetup", "registerFireflyIdentities", "", failure = "")
         /\ IF registerFireflyIdentities(failure) # nil
            THEN Return(registerFireflyIdentities(failure)) /\ UNCHANGED tokIdx
            ELSE Goto("runFirstTimeSetup_tokenFirstTimeSetup") /\ tokIdx' = 1
    /\ UNCHANGED <<gen, disk, docker, listening, op, options, hasBeenRun, err,
                   fireflyCoreEntrypoints, afterInit, last, sub>>

\* for iTok, tp := range s.tokenProviders { tp.FirstTimeSetup(iTok) }; return nil
runFirstTimeSetup_tokenFirstTimeSetup ==
    /\ pc = "runFirstTimeSetup_tokenFirstTimeSetup"
    /\ IF tokIdx <= Len(tokenProviders)
       THEN \E ok \in BOOLEAN :
              /\ Log("runFirstTimeSetup", "token FirstTimeSetup", ToString(tokIdx - 1), ok)
              /\ IF ok
                 THEN Goto("runFirstTimeSetup_tokenFirstTimeSetup") /\ tokIdx' = tokIdx + 1
                 ELSE Return(<<"token FirstTimeSetup">>) /\ UNCHANGED tokIdx
       ELSE /\ Return(nil)
            /\ UNCHANGED <<trace, tokIdx>>
    /\ UNCHANGED <<gen, disk, docker, listening, op, options, hasBeenRun, err,
                   fireflyCoreEntrypoints, afterInit, last, sub>>

\* ------------------------------------------------------------------ reset
ResetCmd ==
    /\ gen = "StackManager"
    /\ CheckExists
    /\ Begin("reset", NoOptions, "ResetStack_down")
    /\ result' = nil
    /\ trace' = <<[call |-> "ResetStack", ok |-> TRUE, in |-> "cmd", arg |-> ""]>>
    /\ UNCHANGED <<gen, disk, docker, listening, afterInit, last, sub>>

\* docker-compose -p <name> down, in InitDir
ResetStack_down ==
    /\ pc = "ResetStack_down"
    /\ \E ok \in BOOLEAN :
         /\ Log("ResetStack", "down", "init", ok)
         /\ IF ok
            THEN containers' = "none" /\ Goto("ResetStack_RemoveAll")
            ELSE UNCHANGED containers /\ Return(<<"down">>)
    /\ UNCHANGED <<gen, disk, volumes, listening, op, options, locals, afterInit, last, sub>>

\* A removal that reports success and leaves the tree in place.
RemoveAll_keeps(tree) == tree

\* os.RemoveAll: the tree is gone.
RemoveAll(tree) == NoTree

\* os.RemoveAll(s.Stack.RuntimeDir)
ResetStack_RemoveAll ==
    /\ pc = "ResetStack_RemoveAll"
    /\ \E ok \in BOOLEAN :
         /\ Log("ResetStack", "RemoveAll", "runtime", ok)
         /\ IF ok
            THEN runtimeTree' = RemoveAll(runtimeTree) /\ Goto("ResetStack_Reset")
            ELSE UNCHANGED runtimeTree /\ Return(<<"RemoveAll">>)
    /\ UNCHANGED <<gen, stackExists, Stack, initTree, dataDir, contractsDir, docker,
                   listening, op, options, locals, afterInit, last, sub>>

\* s.blockchainProvider.Reset()
ResetStack_Reset ==
    /\ pc = "ResetStack_Reset"
    /\ \E ok \in BOOLEAN :
         /\ Log("ResetStack", "Reset", "", ok)
         /\ IF ok THEN Goto("ResetStack_removeVolumes") ELSE Return(<<"Reset">>)
    /\ UNCHANGED <<gen, disk, docker, listening, op, options, locals, afterInit, last, sub>>

\* removeVolumes: one "docker volume remove" per volume, its error dropped;
\* kept are the volumes whose removal failed.
removeVolumes(kept) ==
    /\ kept \subseteq volumes
    /\ volumes' = kept

ResetStack_removeVolumes ==
    /\ pc = "ResetStack_removeVolumes"
    /\ \E kept \in SUBSET volumes :
         /\ removeVolumes(kept)
         /\ Log("ResetStack", "removeVolumes", "", kept = {})
    /\ Return(nil)
    /\ UNCHANGED <<gen, disk, containers, listening, op, options, locals, afterInit, last, sub>>

\* ------------------------------------------------------------------ stop
\* A stop that tears the containers and the volumes down.
StopStack_teardown ==
    /\ gen = "StackManager"
    /\ CheckExists
    /\ Begin("stop", NoOptions, "done")
    /\ \E ok \in BOOLEAN :
         /\ trace' = <<[call |-> "down", ok |-> ok, in |-> "StopStack", arg |-> "init"]>>
         /\ containers' = IF ok THEN "none" ELSE containers
         /\ volumes' = IF ok THEN {} ELSE volumes
         /\ result' = IF ok THEN nil ELSE <<"down">>
    /\ UNCHANGED <<gen, disk, listening, afterInit, last, sub>>

\* StackManager.StopStack: docker-compose -p <name> stop, in InitDir
StopStack ==
    /\ gen = "StackManager"
    /\ CheckExists
    /\ Begin("stop", NoOptions, "done")
    /\ \E ok \in BOOLEAN :
         /\ trace' = <<[call |-> "stop", ok |-> ok, in |-> "StopStack", arg |-> "init"]>>
         /\ containers' = IF ok /\ containers = "up" THEN "stopped" ELSE containers
         /\ result' = IF ok THEN nil ELSE <<"stop">>
    /\ UNCHANGED <<gen, disk, volumes, listening, afterInit, last, sub>>

\* ------------------------------------------------------------------ remove
RemoveCmd ==
    /\ gen = "StackManager"
    /\ CheckExists
    /\ Begin("remove", NoOptions, "RemoveStack_down")
    /\ result' = nil
    /\ trace' = <<>>
    /\ UNCHANGED <<gen, disk, docker, listening, afterInit, last, sub>>

RemoveStack_down ==
    /\ pc = "RemoveStack_down"
    /\ \E ok \in BOOLEAN :
         /\ Log("RemoveStack", "down", "init", ok)
         /\ IF ok
            THEN containers' = "none" /\ Goto("RemoveStack_removeVolumes")
            ELSE UNCHANGED containers /\ Return(<<"down">>)
    /\ UNCHANGED <<gen, disk, volumes, listening, op, options, locals, afterInit, last, sub>>

RemoveStack_removeVolumes ==
    /\ pc = "RemoveStack_removeVolumes"
    /\ \E kept \in SUBSET volumes :
         /\ removeVolumes(kept)
         /\ Log("RemoveStack", "removeVolumes", "", kept = {})
    /\ Goto("RemoveStack_RemoveAll")
    /\ UNCHANGED <<gen, disk, containers, listening, op, options, locals, afterInit, last, sub>>

\* os.RemoveAll(s.Stack.StackDir)
RemoveStack_RemoveAll ==
    /\ pc = "RemoveStack_RemoveAll"
    /\ \E ok \in BOOLEAN :
         /\ Log("RemoveStack", "RemoveAll", "stack", ok)
         /\ IF ok
            THEN /\ stackExists' = FALSE
                 /\ Stack' = NoStack
                 /\ initTree' = RemoveAll(initTree)
                 /\ runtimeTree' = RemoveAll(runtimeTree)
                 /\ afterInit' = NoTree
                 /\ Return(nil)
            ELSE /\ UNCHANGED <<stackExists, Stack, initTree, runtimeTree, afterInit>>
                 /\ Return(<<"RemoveAll">>)
    /\ UNCHANGED <<gen, dataDir, contractsDir, docker, listening, op, options, locals, last, sub>>

\* ================================================================== Stack generation
\* src/internal/stacks/stack.go: the stack directory holds the manifest and the
\* configs (initTree here), data/ and contracts/.

Stack_createMember(index, servicesBase, fireflyBase, external) ==
    LET serviceBase == servicesBase + (index * 100)
    IN [ID |-> Sprint(index),
        Index |-> index,
        Address |-> <<"0x", "address of key", index>>,
        PrivateKey |-> <<"0x", "key", index>>,
        ExposedFireflyPort |-> fireflyBase + index,
        ExposedFireflyAdminPort |-> serviceBase + 1,
        ExposedConnectorPort |-> serviceBase + 2,
        ExposedUIPort |-> serviceBase + 3,
        ExposedPostgresPort |-> serviceBase + 4,
        ExposedDataexchangePort |-> serviceBase + 5,
        ExposedIPFSApiPort |-> serviceBase + 6,
        ExposedIPFSGWPort |-> serviceBase + 7,
        ExposedFireflyMetricsPort |-> 0,
        ExposedTokensPorts |-> <<>>,
        External |-> external]

Stack_InitStack ==
    /\ gen = "Stack"
    /\ pc = "idle"
    /\ ~CheckExists
    /\ \E memberCount \in MemberCounts,
          servicesBase \in ServicesBasePorts, fireflyBase \in FireFlyBasePorts,
          failAt \in {"", "DatabaseSelectionFromString", "writeDockerCompose"} :
        \E externalProcesses \in 0..memberCount :
          LET members == [i \in 1..memberCount |->
                            Stack_createMember(i - 1, servicesBase, fireflyBase,
                                               (i - 1) < externalProcesses)]
              stack == [NoStack EXCEPT !.Members = members,
                                       !.ExposedBlockchainPort = servicesBase]
              tree == [exists |-> TRUE,
                       compose |-> [i \in 1..memberCount |->
                                      IF members[i].External THEN "absent" ELSE ""],
                       config |-> [i \in 1..memberCount |-> WriteFireflyConfig],
                       dependsOn |-> <<>>]
          IN /\ Begin("init", NoOptions, "done")
             /\ trace' = <<>>
             /\ IF failAt = ""
                THEN /\ Stack' = stack
                     /\ stackExists' = TRUE
                     /\ initTree' = tree
                     /\ afterInit' = tree
                     /\ dataDir' = "skeleton"
                ELSE /\ initTree' = IF failAt = "writeDockerCompose"
                                    THEN [NoTree EXCEPT !.exists = TRUE] ELSE initTree
                     /\ dataDir' = IF failAt = "writeDockerCompose"
                                   THEN "skeleton" ELSE dataDir
                     /\ UNCHANGED <<Stack, stackExists, afterInit, last, sub>>
             /\ result' = IF failAt = "" THEN nil ELSE <<failAt>>
             /\ UNCHANGED <<gen, runtimeTree, contractsDir, docker, listening, last, sub>>

Stack_memberPorts(m) ==
    <<m.ExposedDataexchangePort, m.ExposedConnectorPort>>
    \o (IF ~m.External THEN <<m.ExposedFireflyAdminPort, m.ExposedFireflyPort>> ELSE <<>>)
    \o <<m.ExposedIPFSApiPort, m.ExposedIPFSGWPort, m.ExposedPostgresPort, m.ExposedUIPort>>

RECURSIVE Stack_allMemberPorts(_)
Stack_allMemberPorts(ms) ==
    IF ms = <<>> THEN <<>>
    ELSE Stack_memberPorts(Head(ms)) \o Stack_allMemberPorts(Tail(ms))

Stack_checkPortsAvailable ==
    firstUnavailable(<<Stack.ExposedBlockchainPort>> \o Stack_allMemberPorts(Stack.Members))

\* cmd start of the Stack generation: LoadStack, then Stack.StartStack
Stack_StartCmd ==
    /\ gen = "Stack"
    /\ CheckExists
    /\ \E noRollback \in BOOLEAN, noPull \in BOOLEAN :
         Begin("start", [NoRollback |-> noRollback, NoPull |-> noPull],
               "Stack_StartStack_checkPortsAvailable")
    /\ result' = nil
    /\ trace' = <<>>
    /\ listening' \in ListeningChoices(Stack)
    /\ UNCHANGED <<gen, disk, docker, afterInit, last, sub>>

Stack_StartStack_checkPortsAvailable ==
    /\ pc = "Stack_StartStack_checkPortsAvailable"
    /\ Log("StartStack", "checkPortsAvailable", "", Stack_checkPortsAvailable = nil)
    /\ IF Stack_checkPortsAvailable # nil
       THEN Return(Stack_checkPortsAvailable)
       ELSE Goto("Stack_StartStack_StackHasRunBefore")
    /\ UNCHANGED <<gen, disk, docker, listening, op, options, locals, afterInit, last, sub>>

\* Stack.StackHasRunBefore: data/dataexchange_<member 0>/cert.pem exists.
Stack_StackHasRunBefore == dataDir = "certs"

Stack_StartStack_StackHasRunBefore ==
    /\ pc = "Stack_StartStack_StackHasRunBefore"
    /\ \E statOk \in BOOLEAN :
         IF ~statOk
         THEN /\ Return(<<"stat">>)
              /\ UNCHANGED <<hasBeenRun, trace>>
         ELSE /\ hasBeenRun' = Stack_StackHasRunBefore
              /\ IF ~Stack_StackHasRunBefore
                 THEN /\ Call("Stack_runFirstTimeSetup_initializeGethNode",
                              "Stack_StartStack_afterSetup")
                      /\ Log("StartStack", "runFirstTimeSetup", "", TRUE)
                 ELSE /\ Goto("Stack_StartStack_up")
                      /\ UNCHANGED trace
    /\ UNCHANGED <<gen, disk, docker, listening, op, options, err, tokIdx,
                   fireflyCoreEntrypoints, afterInit, last, sub>>

Stack_runFirstTimeSetup_initializeGethNode ==
    /\ pc = "Stack_runFirstTimeSetup_initializeGethNode"
    /\ \E ok \in BOOLEAN :
         /\ Log("runFirstTimeSetup", "initializeGethNode", "", ok)
         /\ IF ok
            THEN /\ volumes' = volumes \cup {"provider"}
                 /\ Goto("Stack_runFirstTimeSetup_writeDataExchangeCerts")
            ELSE /\ volumes' \in {volumes, volumes \cup {"provider"}}
                 /\ Return(<<"initializeGethNode">>)
    /\ UNCHANGED <<gen, disk, containers, listening, op, options, locals, afterInit, last, sub>>

\* writeDataExchangeCerts returns the error of openssl only: it drops the errors
\* of writing config.json and of the copies into the volume.
Stack_runFirstTimeSetup_writeDataExchangeCerts ==
    /\ pc = "Stack_runFirstTimeSetup_writeDataExchangeCerts"
    /\ \E failure \in {"", "openssl", "CopyFileToVolume"} :
         /\ Log("runFirstTimeSetup", "writeDataExchangeCerts", "", failure = "")
         /\ IF failure = "openssl"
            THEN /\ dataDir' \in {dataDir, "certs"}
                 /\ UNCHANGED volumes
                 /\ Return(<<"openssl">>)
            ELSE /\ dataDir' = "certs"
                 /\ volumes' = IF failure = "" THEN volumes \cup {"compose"} ELSE volumes
                 /\ Goto("Stack_runFirstTimeSetup_CopyFileToVolume")
    /\ UNCHANGED <<gen, stackExists, Stack, initTree, runtimeTree, contractsDir,
                   containers, listening, op, options, locals, afterInit, last, sub>>

\* write firefly configs to volumes
Stack_runFirstTimeSetup_CopyFileToVolume ==
    /\ pc = "Stack_runFirstTimeSetup_CopyFileToVolume"
    /\ IF Managed(Stack) # {}
       THEN \E ok \in BOOLEAN :
              /\ Log("runFirstTimeSetup", "CopyFileToVolume", "", ok)
              /\ volumes' = volumes \cup {"compose"}
              /\ IF ok
                 THEN Goto("Stack_runFirstTimeSetup_pull")
                 ELSE Return(<<"CopyFileToVolume">>)
       ELSE /\ Goto("Stack_runFirstTimeSetup_pull")
            /\ UNCHANGED <<trace, volumes>>
    /\ UNCHANGED <<gen, disk, containers, listening, op, options, locals, afterInit, last, sub>>

Stack_runFirstTimeSetup_pull ==
    /\ pc = "Stack_runFirstTimeSetup_pull"
    /\ IF ~options.NoPull
       THEN \E ok \in BOOLEAN :
              /\ Log("runFirstTimeSetup", "pull", "stack", ok)
              /\ IF ok THEN Goto("Stack_runFirstTimeSetup_up") ELSE Return(<<"pull">>)
       ELSE /\ Goto("Stack_runFirstTimeSetup_up")
            /\ UNCHANGED trace
    /\ UNCHANGED <<gen, disk, docker, listening, op, options, locals, afterInit, last, sub>>

Stack_runFirstTimeSetup_up ==
    /\ pc = "Stack_runFirstTimeSetup_up"
    /\ \E ok \in BOOLEAN :
         /\ Log("runFirstTimeSetup", "up", "stack", ok)
         /\ IF ok
            THEN /\ containers' = "up"
                 /\ volumes' = AllVolumes
                 /\ Goto("Stack_runFirstTimeSetup_UnlockAccounts")
            ELSE /\ UNCHANGED <<containers, volumes>>
                 /\ Return(<<"up">>)
    /\ UNCHANGED <<gen, disk, listening, op, options, locals, afterInit, last, sub>>

Stack_runFirstTimeSetup_UnlockAccounts ==
    /\ pc = "Stack_runFirstTimeSetup_UnlockAccounts"
    /\ \E ok \in BOOLEAN :
         /\ Log("runFirstTimeSetup", "UnlockAccounts", "", ok)
         /\ IF ok
            THEN Goto("Stack_runFirstTimeSetup_extractContracts")
            ELSE Return(<<"unable to unlock account">>)
    /\ UNCHANGED <<gen, disk, docker, listening, op, options, locals, afterInit, last, sub>>

\* The first managed member's container holds the contracts; none is an error.
Stack_runFirstTimeSetup_extractContracts ==
    /\ pc = "Stack_runFirstTimeSetup_extractContracts"
    /\ IF Managed(Stack) = {}
       THEN /\ Return(<<"no valid firefly core containers found in stack">>)
            /\ UNCHANGED <<trace, contractsDir>>
       ELSE \E ok \in BOOLEAN :
              /\ Log("runFirstTimeSetup", "extractContracts", "stack", ok)
              /\ contractsDir' = (contractsDir \/ ok)
              /\ IF ok
                 THEN Call("Stack_ensureFireflyNodesUp", "Stack_runFirstTimeSetup_afterNodesUp")
                 ELSE Return(<<"extractContracts">>)
    /\ UNCHANGED <<gen, stackExists, Stack, initTree, runtimeTree, dataDir, docker,
                   listening, op, options, locals, afterInit, last, sub>>

\* Stack.ensureFireflyNodesUp(firstTimeSetup): the admin port during first-time
\* setup, the API port otherwise.
Stack_ensureFireflyNodesUp ==
    /\ pc = "Stack_ensureFireflyNodesUp"
    /\ LET port(m) == IF InSetup THEN m.ExposedFireflyAdminPort ELSE m.ExposedFireflyPort
           waitFor == {i \in External(Stack) : checkPortAvailable(port(Stack.Members[i]))}
       IN IF External(Stack) = {}
          THEN /\ Return(nil)
               /\ UNCHANGED trace
          ELSE \E started \in (IF waitFor = {} THEN {TRUE} ELSE BOOLEAN) :
                 /\ Log(Fn, "ensureFireflyNodesUp", "", started)
                 /\ IF started
                    THEN Return(nil)
                    ELSE Return(<<"waited for firefly to start">>)
    /\ UNCHANGED <<gen, disk, docker, listening, op, options, locals, afterInit, last, sub>>

Stack_runFirstTimeSetup_afterNodesUp ==
    /\ pc = "Stack_runFirstTimeSetup_afterNodesUp"
    /\ IF ret # nil
       THEN Return(ret)
       ELSE Goto("Stack_runFirstTimeSetup_deployContracts")
    /\ UNCHANGED <<gen, disk, docker, listening, op, options, locals, trace, afterInit, last, sub>>

Stack_runFirstTimeSetup_deployContracts ==
    /\ pc = "Stack_runFirstTimeSetup_deployContracts"
    /\ \E ok \in BOOLEAN :
         /\ Log("runFirstTimeSetup", "deployContracts", "", ok)
         /\ IF ok
            THEN Goto("Stack_runFirstTimeSetup_registerFireflyIdentities")
            ELSE Return(<<"deployContracts">>)
    /\ UNCHANGED <<gen, disk, docker, listening, op, options, locals, afterInit, last, sub>>

Stack_runFirstTimeSetup_registerFireflyIdentities ==
    /\ pc = "Stack_runFirstTimeSetup_registerFireflyIdentities"
    /\ \E failure \in RegistrationFailures :
         /\ Log("runFirstTimeSetup", "registerFireflyIdentities", "", failure = "")
         /\ Return(registerFireflyIdentities(failure))
    /\ UNCHANGED <<gen, disk, docker, listening, op, options, locals, afterInit, last, sub>>

Stack_StartStack_afterSetup ==
    /\ pc = "Stack_StartStack_afterSetup"
    /\ err' = ret
    /\ IF ret # nil
       THEN IF NoRollback(options)
            THEN /\ Return(ret)
                 /\ UNCHANGED trace
            ELSE /\ Call("Stack_ResetStack_down", "Stack_StartStack_afterReset")
                 /\ Log("StartStack", "ResetStack", "", TRUE)
       ELSE /\ Return(nil)
            /\ UNCHANGED trace
    /\ UNCHANGED <<gen, disk, docker, listening, op, options, hasBeenRun, tokIdx,
                   fireflyCoreEntrypoints, afterInit, last, sub>>

Stack_StartStack_afterReset ==
    /\ pc = "Stack_StartStack_afterReset"
    /\ Return(finalErr(err, ret))
    /\ UNCHANGED <<gen, disk, docker, listening, op, options, locals, trace, afterInit, last, sub>>

\* The branch of a stack that has run before.
Stack_StartStack_up ==
    /\ pc = "Stack_StartStack_up"
    /\ \E ok \in BOOLEAN :
         /\ Log("StartStack", "up", "stack", ok)
         /\ IF ok
            THEN /\ containers' = "up"
                 /\ volumes' = AllVolumes
                 /\ Goto("Stack_StartStack_UnlockAccounts")
            ELSE /\ UNCHANGED <<containers, volumes>>
                 /\ Return(<<"up">>)
    /\ UNCHANGED <<gen, disk, listening, op, options, locals, afterInit, last, sub>>

\* err := s.UnlockAccounts(spin); s.ensureFireflyNodesUp(false, spin)
Stack_StartStack_UnlockAccounts ==
    /\ pc = "Stack_StartStack_UnlockAccounts"
    /\ \E ok \in BOOLEAN :
         /\ Log("StartStack", "UnlockAccounts", "", ok)
         /\ err' = IF ok THEN nil ELSE <<"unable to unlock account">>
    /\ Call("Stack_ensureFireflyNodesUp", "Stack_StartStack_return")
    /\ UNCHANGED <<gen, disk, docker, listening, op, options, hasBeenRun, tokIdx,
                   fireflyCoreEntrypoints, afterInit, last, sub>>

\* return err: the error of ensureFireflyNodesUp is dropped.
Stack_StartStack_return ==
    /\ pc = "Stack_StartStack_return"
    /\ Return(err)
    /\ UNCHANGED <<gen, disk, docker, listening, op, options, locals, trace, afterInit, last, sub>>

Stack_ResetCmd ==
    /\ gen = "Stack"
    /\ CheckExists
    /\ Begin("reset", NoOptions, "Stack_ResetStack_down")
    /\ result' = nil
    /\ trace' = <<[call |-> "ResetStack", ok |-> TRUE, in |-> "cmd", arg |-> ""]>>
    /\ UNCHANGED <<gen, disk, docker, listening, afterInit, last, sub>>

\* docker-compose down --volumes
Stack_ResetStack_down ==
    /\ pc = "Stack_ResetStack_down"
    /\ \E ok \in BOOLEAN :
         /\ Log("ResetStack", "down --volumes", "stack", ok)
         /\ IF ok
            THEN containers' = "none" /\ volumes' = {} /\ Goto("Stack_ResetStack_RemoveAll")
            ELSE UNCHANGED <<containers, volumes>> /\ Return(<<"down">>)
    /\ UNCHANGED <<gen, disk, listening, op, options, locals, afterInit, last, sub>>

\* os.RemoveAll(<stack dir>/data)
Stack_ResetStack_RemoveAll ==
    /\ pc = "Stack_ResetStack_RemoveAll"
    /\ \E ok \in BOOLEAN :
         /\ Log("ResetStack", "RemoveAll", "data", ok)
         /\ IF ok
            THEN dataDir' = "absent" /\ Goto("Stack_ResetStack_ensureDirectories")
            ELSE UNCHANGED dataDir /\ Return(<<"RemoveAll">>)
    /\ UNCHANGED <<gen, stackExists, Stack, initTree, runtimeTree, contractsDir, docker,
                   listening, op, options, locals, afterInit, last, sub>>

\* return s.ensureDirectories()
Stack_ResetStack_ensureDirectories ==
    /\ pc = "Stack_ResetStack_ensureDirectories"
    /\ \E ok \in BOOLEAN :
         /\ Log("ResetStack", "ensureDirectories", "stack", ok)
         /\ IF ok
            THEN dataDir' = "skeleton" /\ Return(nil)
            ELSE UNCHANGED dataDir /\ Return(<<"ensureDirectories">>)
    /\ UNCHANGED <<gen, stackExists, Stack, initTree, runtimeTree, contractsDir, docker,
                   listening, op, options, locals, afterInit, last, sub>>

Stack_StopStack ==
    /\ gen = "Stack"
    /\ CheckExists
    /\ Begin("stop", NoOptions, "done")
    /\ \E ok \in BOOLEAN :
         /\ trace' = <<[call |-> "stop", ok |-> ok, in |-> "StopStack", arg |-> "stack"]>>
         /\ containers' = IF ok /\ containers = "up" THEN "stopped" ELSE containers
         /\ result' = IF ok THEN nil ELSE <<"stop">>
    /\ UNCHANGED <<gen, disk, volumes, listening, afterInit, last, sub>>

\* Stack.RemoveStack: ResetStack, then os.RemoveAll(<stack dir>)
Stack_RemoveCmd ==
    /\ gen = "Stack"
    /\ CheckExists
    /\ Begin("remove", NoOptions, "Stack_RemoveStack")
    /\ result' = nil
    /\ trace' = <<>>
    /\ UNCHANGED <<gen, disk, docker, listening, afterInit, last, sub>>

\* err := s.ResetStack()
Stack_RemoveStack ==
    /\ pc = "Stack_RemoveStack"
    /\ Call("Stack_ResetStack_down", "Stack_RemoveStack_afterReset")
    /\ Log("RemoveStack", "ResetStack", "", TRUE)
    /\ UNCHANGED <<gen, disk, docker, listening, op, options, locals, afterInit, last, sub>>

Stack_RemoveStack_afterReset ==
    /\ pc = "Stack_RemoveStack_afterReset"
    /\ IF ret # nil
       THEN /\ Return(ret)
            /\ UNCHANGED <<trace, disk, afterInit>>
       ELSE \E ok \in BOOLEAN :
              /\ Log("RemoveStack", "RemoveAll", "stack", ok)
              /\ IF ok
                 THEN /\ stackExists' = FALSE
                      /\ Stack' = NoStack
                      /\ initTree' = RemoveAll(initTree)
                      /\ dataDir' = "absent"
                      /\ contractsDir' = FALSE
                      /\ afterInit' = NoTree
                      /\ UNCHANGED runtimeTree
                      /\ Return(nil)
                 ELSE /\ UNCHANGED <<disk, afterInit>>
                      /\ Return(<<"RemoveAll">>)
    /\ UNCHANGED <<gen, docker, listening, op, options, locals, last, sub>>

\* ------------------------------------------------------------------ exit
\* The command's process exits; the next command starts from the disk and the
\* container runtime alone.
\* StartStack ran first-time setup, it failed, and the rollback's ResetStack
\* returned nil (the command ended with "... - all changes rolled back").
RolledBack ==
    /\ op = "start"
    /\ ~hasBeenRun
    /\ err # nil
    /\ ~options.NoRollback
    /\ ret = nil

Exit ==
    /\ pc = "done"
    /\ pc' = "idle"
    /\ op' = "none"
    /\ options' = NoOptions
    /\ listening' = {}
    /\ trace' = <<>>
    /\ result' = nil
    /\ hasBeenRun' = FALSE
    /\ err' = nil
    /\ tokIdx' = 1
    /\ fireflyCoreEntrypoints' = <<>>
    /\ ret' = nil
    /\ UNCHANGED sub
    /\ last' = IF RolledBack THEN "rolledBack"
             ELSE IF op = "init" /\ result = nil THEN "init"
             ELSE IF op = "stop" /\ (StackHasRunBefore \/ Stack_StackHasRunBefore)
                  THEN "stopped"
             ELSE "other"
    /\ UNCHANGED <<gen, disk, docker, frames, afterInit>>

\* ------------------------------------------------------------------ specification
NoAlloc == [n |-> 0, servicesBase |-> 0, prometheus |-> FALSE, nTokens |-> 0,
            members |-> <<>>]

MainInit ==
    /\ gen \in {"StackManager", "Stack"}
    /\ stackExists = FALSE
    /\ Stack = NoStack
    /\ initTree = NoTree
    /\ runtimeTree = NoTree
    /\ dataDir = "absent"
    /\ contractsDir = FALSE
    /\ containers = "none"
    /\ volumes = {}
    /\ listening = {}
    /\ op = "none"
    /\ options = NoOptions
    /\ pc = "idle"
    /\ frames = <<>>
    /\ ret = nil
    /\ hasBeenRun = FALSE
    /\ err = nil
    /\ tokIdx = 1
    /\ fireflyCoreEntrypoints = <<>>
    /\ trace = <<>>
    /\ result = nil
    /\ afterInit = NoTree
    /\ last = "other"

NoWait == [port |-> 0, retriesRemaining |-> 0, at |-> "return", probes |-> 0,
           slept |-> 0, upAt |-> -1, lastProbe |-> "none", result |-> nil]

NoReg == [n |-> 0, member |-> 0, at |-> "return", retries |-> 0, orgs |-> {},
          found |-> {}, nodes |-> {}, result |-> nil]

\* filepath.Join(constants.StacksDir, stackName); "-p", s.Stack.Name
Names == {"a", "b"}
StackDir(stackName) == <<"stacks", stackName>>
ProjectName_default(stackName) == "init"
ProjectName(stackName) == stackName

NoHost == [dirs |-> [d \in {StackDir(n) : n \in Names} |-> NoStack],
           projects |-> [p \in {ProjectName(n) : n \in Names} |-> "none"],
           result |-> [n \in Names |-> nil],
           acted |-> <<"", "">>]

NoInvocation == [fn |-> "none"]

\* What a component model that follows one call leaves alone.
rest == <<main, alloc, wait, reg, host>>

Init ==
    /\ MainInit
    /\ alloc = NoAlloc
    /\ wait = NoWait
    /\ reg = NoReg
    /\ host = NoHost
    /\ invocation = NoInvocation

Next ==
    \/ InitStack
    \/ StartCmd
    \/ StartStack_checkPortsAvailable
    \/ StartStack_StackHasRunBefore
    \/ StartStack_afterSetup
    \/ StartStack_afterReset
    \/ StartStack_afterStartup
    \/ StartStack_return
    \/ runFirstTimeSetup_Copy
    \/ runFirstTimeSetup_disableFireflyCoreContainers
    \/ runFirstTimeSetup_FirstTimeSetup
    \/ runFirstTimeSetup_prometheus
    \/ runFirstTimeSetup_copyDataExchangeConfigToVolumes
    \/ runStartupSequence_PreStart
    \/ runStartupSequence_up
    \/ runStartupSequence_PostStart
    \/ ensureFireflyNodesUp
    \/ runFirstTimeSetup_afterStartup
    \/ runFirstTimeSetup_DeploySmartContracts
    \/ runFirstTimeSetup_DeployFireFlyContract
    \/ runFirstTimeSetup_patchFireFlyCoreConfigs
    \/ runFirstTimeSetup_copyFireflyConfigToContainer
    \/ runFirstTimeSetup_enableFireflyCoreContainers
    \/ runFirstTimeSetup_up
    \/ runFirstTimeSetup_afterNodesUp
    \/ runFirstTimeSetup_registerFireflyIdentities
    \/ runFirstTimeSetup_tokenFirstTimeSetup
    \/ ResetCmd
    \/ ResetStack_down
    \/ ResetStack_RemoveAll
    \/ ResetStack_Reset
    \/ ResetStack_removeVolumes
    \/ StopStack
    \/ RemoveCmd
    \/ RemoveStack_down
    \/ RemoveStack_removeVolumes
    \/ RemoveStack_RemoveAll
    \/ Stack_InitStack
    \/ Stack_StartCmd
    \/ Stack_StartStack_checkPortsAvailable
    \/ Stack_StartStack_StackHasRunBefore
    \/ Stack_runFirstTimeSetup_initializeGethNode
    \/ Stack_runFirstTimeSetup_writeDataExchangeCerts
    \/ Stack_runFirstTimeSetup_CopyFileToVolume
    \/ Stack_runFirstTimeSetup_pull
    \/ Stack_runFirstTimeSetup_up
    \/ Stack_runFirstTimeSetup_UnlockAccounts
    \/ Stack_runFirstTimeSetup_extractContracts
    \/ Stack_ensureFireflyNodesUp
    \/ Stack_runFirstTimeSetup_afterNodesUp
    \/ Stack_runFirstTimeSetup_deployContracts
    \/ Stack_runFirstTimeSetup_registerFireflyIdentities
    \/ Stack_StartStack_afterSetup
    \/ Stack_StartStack_afterReset
    \/ Stack_StartStack_up
    \/ Stack_StartStack_UnlockAccounts
    \/ Stack_StartStack_return
    \/ Stack_ResetCmd
    \/ Stack_ResetStack_down
    \/ Stack_ResetStack_RemoveAll
    \/ Stack_ResetStack_ensureDirectories
    \/ Stack_StopStack
    \/ Stack_RemoveCmd
    \/ Stack_RemoveStack
    \/ Stack_RemoveStack_afterReset
    \/ Exit

Spec == Init /\ [][Next]_vars

\* ================================================================== port allocator
\* InitStack's member loop on its own, for member counts and numbers of token
\* providers up to these bounds.
MaxAllocTokens == 94

AllocOptions ==
    [n : MemberCounts, servicesBase : ServicesBasePorts, prometheus : BOOLEAN,
     nTokens : 0..MaxAllocTokens, members : {<<>>}]

PortsInit ==
    /\ MainInit
    /\ alloc \in AllocOptions
    /\ wait = NoWait
    /\ reg = NoReg
    /\ host = NoHost
    /\ invocation = NoInvocation

\* One turn of `for i := 0; i < options.MemberCount; i++`: createMember(i).
InitStack_createMember ==
    /\ Len(alloc.members) < alloc.n
    /\ \E fireflyBase \in FireFlyBasePorts :
          LET i == Len(alloc.members)
              member == IF gen = "StackManager"
                        THEN createMember(i, alloc.servicesBase, fireflyBase,
                                          alloc.prometheus, alloc.nTokens, FALSE)
                        ELSE Stack_createMember(i, alloc.servicesBase, fireflyBase, FALSE)
          IN alloc' = [alloc EXCEPT !.members = Append(@, member)]
    /\ UNCHANGED <<main, wait, reg, host, invocation>>

SpecPorts == PortsInit /\ [][InitStack_createMember]_vars


\* ================================================================== readiness probe
\* waitForFireflyStart(port), one step per statement of its loop, and the
\* process behind the port, which may start to listen at any moment.
retries == 120
retryPeriod == 1000

\* The ports ensureFireflyNodesUp waits on: a member's API port, or its admin
\* port during the first-time setup.
WaitPorts ==
    {p + (m - 1) : p \in FireFlyBasePorts, m \in 1..MaxMembers}
    \cup {p + 100 * (m - 1) + 1 : p \in ServicesBasePorts, m \in 1..MaxMembers}

\* fmt.Errorf("waited for %v seconds for firefly to start on port %v but it was
\* never available", retries*retryPeriod/1000, port)
timeoutError_nil(port) == nil
timeoutError(port) ==
    <<"waited for", ToString((retries * retryPeriod) \div 1000), "seconds on port",
      ToString(port)>>

WaitInit ==
    /\ MainInit
    /\ alloc = NoAlloc
    /\ reg = NoReg
    /\ host = NoHost
    /\ invocation = NoInvocation
    /\ \E port \in WaitPorts :
         wait = [NoWait EXCEPT !.port = port, !.retriesRemaining = retries,
                               !.at = "Sleep"]

\* for retriesRemaining > 0 { time.Sleep(retryPeriod * time.Millisecond)
waitForFireflyStart_Sleep ==
    /\ wait.at = "Sleep"
    /\ wait.retriesRemaining > 0
    /\ wait' = [wait EXCEPT !.at = "checkPortAvailable", !.slept = @ + retryPeriod]
    /\ UNCHANGED <<main, alloc, reg, host, invocation>>

\* available, err := checkPortAvailable(port), and the rest of the loop body.
\* The dial meets a refusal or its 500 ms timeout (available), a connection
\* (not available), or fails before it connects (an error).
waitForFireflyStart_checkPortAvailable ==
    /\ wait.at = "checkPortAvailable"
    /\ \E dialFails \in BOOLEAN, timesOut \in BOOLEAN :
         LET available == checkPortAvailable(wait.port)
             outcome == IF dialFails THEN "dialError"
                        ELSE IF ~available THEN "accepted"
                        ELSE IF timesOut THEN "timeout" ELSE "refused"
         IN /\ dialFails => ~timesOut
            /\ ~available => ~timesOut
            /\ wait' = IF dialFails
                       THEN [wait EXCEPT !.probes = @ + 1, !.lastProbe = outcome,
                                         !.at = "return", !.result = <<"dial">>]
                       ELSE IF ~available
                       THEN [wait EXCEPT !.probes = @ + 1, !.lastProbe = outcome,
                                         !.at = "return", !.result = nil]
                       ELSE [wait EXCEPT !.probes = @ + 1, !.lastProbe = outcome,
                                         !.at = "Sleep",
                                         !.retriesRemaining = @ - 1]
    /\ UNCHANGED <<main, alloc, reg, host, invocation>>

\* The loop has ended: return fmt.Errorf(...).
waitForFireflyStart_timeout ==
    /\ wait.at = "Sleep"
    /\ ~(wait.retriesRemaining > 0)
    /\ wait' = [wait EXCEPT !.at = "return", !.result = timeoutError(wait.port)]
    /\ UNCHANGED <<main, alloc, reg, host, invocation>>

\* The FireFly node behind the port starts to accept connections.
Listen ==
    /\ wait.at # "return"
    /\ wait.port \notin listening
    /\ listening' = listening \cup {wait.port}
    /\ wait' = [wait EXCEPT !.upAt = wait.probes]
    /\ UNCHANGED <<gen, disk, docker, op, options, pc, frames, ret, locals, trace,
                   result, afterInit, last, alloc, reg, host, invocation>>

WaitNext ==
    \/ waitForFireflyStart_Sleep
    \/ waitForFireflyStart_checkPortAvailable
    \/ waitForFireflyStart_timeout
    \/ Listen

SpecWait == WaitInit /\ [][WaitNext]_vars

\* ================================================================== identity registration
\* Stack.registerFireflyIdentities, one step per HTTP request.  Each request
\* (httpJSONWithRetry) ends with a response or with an error; the organization
\* list names the member's organization or does not yet.
registerFireflyIdentities_retries == 60

RegisterInit ==
    /\ MainInit
    /\ alloc = NoAlloc
    /\ wait = NoWait
    /\ host = NoHost
    /\ invocation = NoInvocation
    /\ \E n \in MemberCounts :
         reg = [NoReg EXCEPT !.n = n, !.member = 1, !.at = "registerOrg"]

\* POST .../network/register/node/organization; foundOrg := false; retries := 60
registerFireflyIdentities_registerOrg ==
    /\ reg.at = "registerOrg"
    /\ \E ok \in BOOLEAN :
         reg' = IF ok
                THEN [reg EXCEPT !.orgs = @ \cup {reg.member}, !.at = "listOrgs",
                                 !.retries = registerFireflyIdentities_retries]
                ELSE [reg EXCEPT !.at = "return", !.result = <<"register organization">>]
    /\ UNCHANGED <<main, alloc, wait, host, invocation>>

\* One turn of `for !foundOrg`: GET .../network/organizations, the search for
\* orgName, then the sleep and retries--, or the timeout error.
registerFireflyIdentities_listOrgs ==
    /\ reg.at = "listOrgs"
    /\ \E response \in {"error", "named", "not named"} :
         reg' = CASE response = "error" ->
                       [reg EXCEPT !.at = "return", !.result = nil]
                  [] response = "named" ->
                       [reg EXCEPT !.found = @ \cup {reg.member}, !.at = "registerNode"]
                  [] response = "not named" /\ reg.retries > 0 ->
                       [reg EXCEPT !.retries = @ - 1]
                  [] response = "not named" /\ reg.retries = 0 ->
                       [reg EXCEPT !.at = "return",
                                   !.result = <<"timeout error waiting to register",
                                                ToString(reg.member - 1)>>]
    /\ UNCHANGED <<main, alloc, wait, host, invocation>>

\* POST .../network/register/node, then the next member, or return nil.
registerFireflyIdentities_registerNode ==
    /\ reg.at = "registerNode"
    /\ \E ok \in BOOLEAN :
         reg' = IF ~ok
                THEN [reg EXCEPT !.at = "return", !.result = nil]
                ELSE IF reg.member = reg.n
                THEN [reg EXCEPT !.nodes = @ \cup {reg.member}, !.at = "return",
                                 !.result = nil]
                ELSE [reg EXCEPT !.nodes = @ \cup {reg.member}, !.at = "registerOrg",
                                 !.member = @ + 1]
    /\ UNCHANGED <<main, alloc, wait, host, invocation>>

RegisterNext ==
    \/ registerFireflyIdentities_registerOrg
    \/ registerFireflyIdentities_listOrgs
    \/ registerFireflyIdentities_registerNode

SpecRegister == RegisterInit /\ [][RegisterNext]_vars

\* ================================================================== two stacks
\* The lifecycle operations on two stack names of one machine, each operation
\* as a whole and with the container runtime doing what it is asked.  The
\* variable `listening` holds the host ports the running containers have bound.
HostBasePorts == {<<5000, 5100>>, <<5050, 5600>>}

\* The stack record InitStack builds from its options (no extras).
HostStack(memberCount, fireflyBase, servicesBase) ==
    [NoStack EXCEPT
        !.Members = [i \in 1..memberCount |->
                        createMember(i - 1, servicesBase, fireflyBase, FALSE, 0, FALSE)],
        !.ExposedBlockchainPort = servicesBase,
        !.BlockchainProvider = "geth"]

\* The host ports the containers of a stack publish: the ports of its record
\* that are set (a metrics port of 0 is none).
PublishedPorts(stack) == Range(portList(stack)) \ {0}

\* The host ports of the stacks whose containers run in compose project p.
PortsOfProject(p) ==
    UNION {PublishedPorts(host.dirs[StackDir(n)]) :
             n \in {m \in Names : ProjectName(m) = p /\ host.dirs[StackDir(m)] # NoStack}}

HostInit ==
    /\ MainInit
    /\ alloc = NoAlloc
    /\ wait = NoWait
    /\ reg = NoReg
    /\ host = NoHost
    /\ invocation = NoInvocation

HostUnchanged ==
    UNCHANGED <<gen, disk, docker, op, options, pc, frames, ret, locals, trace, result,
                afterInit, last, alloc, wait, reg, invocation>>

\* InitStack(stackName, memberCount, options): the stack directory and stack.json.
Host_InitStack ==
    /\ \E n \in Names, memberCount \in MemberCounts, base \in HostBasePorts :
         /\ host.dirs[StackDir(n)] = NoStack
         /\ host' = [host EXCEPT
                       !.dirs[StackDir(n)] = HostStack(memberCount, base[1], base[2]),
                       !.result[n] = nil,
                       !.acted = <<"init", n>>]
    /\ UNCHANGED listening
    /\ HostUnchanged

\* StartStack: checkPortsAvailable, then `docker-compose -p <name> up -d`.
Host_StartStack ==
    /\ \E n \in Names :
         LET stack == host.dirs[StackDir(n)]
             e == firstUnavailable(portList(stack))
         IN /\ stack # NoStack
            /\ IF e # nil
               THEN /\ host' = [host EXCEPT !.result[n] = e, !.acted = <<"start", n>>]
                    /\ UNCHANGED listening
               ELSE /\ host' = [host EXCEPT !.projects[ProjectName(n)] = "up",
                                            !.result[n] = nil,
                                            !.acted = <<"start", n>>]
                    /\ listening' = listening \cup PublishedPorts(stack)
    /\ HostUnchanged

\* StopStack: `docker-compose -p <name> stop`.
Host_StopStack ==
    /\ \E n \in Names :
         /\ host.dirs[StackDir(n)] # NoStack
         /\ host' = [host EXCEPT
                       !.projects[ProjectName(n)] = IF @ = "up" THEN "stopped" ELSE @,
                       !.result[n] = nil,
                       !.acted = <<"stop", n>>]
         /\ listening' = IF host.projects[ProjectName(n)] = "up"
                         THEN listening \ PortsOfProject(ProjectName(n))
                         ELSE listening
    /\ HostUnchanged

\* RemoveStack: `docker-compose -p <name> down`, os.RemoveAll(s.Stack.StackDir).
Host_RemoveStack ==
    /\ \E n \in Names :
         /\ host.dirs[StackDir(n)] # NoStack
         /\ host' = [host EXCEPT
                       !.projects[ProjectName(n)] = "none",
                       !.dirs[StackDir(n)] = NoStack,
                       !.result[n] = nil,
                       !.acted = <<"remove", n>>]
         /\ listening' = IF host.projects[ProjectName(n)] = "up"
                         THEN listening \ PortsOfProject(ProjectName(n))
                         ELSE listening
    /\ HostUnchanged

HostNext ==
    \/ Host_InitStack
    \/ Host_StartStack
    \/ Host_StopStack
    \/ Host_RemoveStack

SpecHost == HostInit /\ [][HostNext]_vars

\* ================================================================== HTTP retry
\* Stack.httpJSONWithRetry, one step per request and one per sleep.  A request
\* (httpJSON) ends with a 2xx response, ends with an error (the connection is
\* refused, or the status is not 2xx), or does not end: client := &http.Client{}
\* has no timeout, so a request the endpoint never answers stays pending.
httpJSONWithRetry_retries == 30

HttpErrors == {<<"connection refused">>, <<"returned 500">>}

RetryInit ==
    /\ MainInit
    /\ alloc = NoAlloc
    /\ wait = NoWait
    /\ reg = NoReg
    /\ host = NoHost
    /\ invocation = [fn |-> "httpJSONWithRetry", at |-> "httpJSON",
                     retries |-> httpJSONWithRetry_retries, attempts |-> 0,
                     slept |-> 0, errors |-> <<>>, result |-> nil]

\* if err := s.httpJSON(...); err != nil { if retries > 0 { retries-- ... } else
\* { return err } } else { return nil }
httpJSONWithRetry_httpJSON ==
    /\ invocation.fn = "httpJSONWithRetry"
    /\ invocation.at = "httpJSON"
    /\ \/ invocation' = [invocation EXCEPT !.attempts = @ + 1, !.at = "return",
                                           !.result = nil]
       \/ \E e \in HttpErrors :
            invocation' =
               IF invocation.retries > 0
               THEN [invocation EXCEPT !.attempts = @ + 1, !.retries = @ - 1,
                                       !.errors = <<e>>, !.at = "Sleep"]
               ELSE [invocation EXCEPT !.attempts = @ + 1, !.errors = <<e>>,
                                       !.at = "return", !.result = e]
       \/ invocation' = [invocation EXCEPT !.attempts = @ + 1, !.at = "pending"]
    /\ UNCHANGED rest

\* time.Sleep(1 * time.Second)
httpJSONWithRetry_Sleep ==
    /\ invocation.fn = "httpJSONWithRetry"
    /\ invocation.at = "Sleep"
    /\ invocation' = [invocation EXCEPT !.slept = @ + 1, !.at = "httpJSON"]
    /\ UNCHANGED rest

RetryNext ==
    \/ httpJSONWithRetry_httpJSON
    \/ httpJSONWithRetry_Sleep

\* The loop runs on: a step that can be taken is taken.
SpecRetry == RetryInit /\ [][RetryNext]_vars /\ WF_vars(RetryNext)

\* ================================================================== external nodes
\* ensureFireflyNodesUp, one step per member of the loop and one per call of
\* waitForFireflyStart.  The nodes of the members start to listen when they do;
\* polls records the probes made: the member, the call, and what it met.
NodesInit ==
    /\ MainInit
    /\ alloc = NoAlloc
    /\ wait = NoWait
    /\ reg = NoReg
    /\ host = NoHost
    /\ \E n \in MemberCounts, firstTimeSetup \in BOOLEAN,
          servicesBase \in ServicesBasePorts, fireflyBase \in FireFlyBasePorts :
         \E external \in [1..n -> BOOLEAN] :
           invocation =
              [fn |-> "ensureFireflyNodesUp",
               Members |-> [i \in 1..n |->
                              IF gen = "StackManager"
                              THEN createMember(i - 1, servicesBase, fireflyBase, FALSE,
                                                0, external[i])
                              ELSE Stack_createMember(i - 1, servicesBase, fireflyBase,
                                                      external[i])],
               firstTimeSetup |-> firstTimeSetup,
               i |-> 1, at |-> "member", polls |-> <<>>, result |-> nil]

\* if firstTimeSetup { port = member.ExposedFireflyAdminPort } else { ... }
NodePort(i) ==
    IF invocation.firstTimeSetup
    THEN invocation.Members[i].ExposedFireflyAdminPort
    ELSE invocation.Members[i].ExposedFireflyPort

Poll(call, met) == [member |-> invocation.i, call |-> call, met |-> met]

\* One turn of `for _, member := range s.Stack.Members`, up to the call of
\* waitForFireflyStart; `return nil` when the range is exhausted.
ensureFireflyNodesUp_member ==
    /\ invocation.fn = "ensureFireflyNodesUp"
    /\ invocation.at = "member"
    /\ LET i == invocation.i
       IN IF i > Len(invocation.Members)
          THEN invocation' = [invocation EXCEPT !.at = "return", !.result = nil]
          ELSE IF i \notin External(invocation)
          THEN invocation' = [invocation EXCEPT !.i = @ + 1]
          ELSE \E dialFails \in BOOLEAN :
                 invocation' =
                    IF dialFails
                    THEN [invocation EXCEPT
                             !.polls = Append(@, Poll("checkPortAvailable", "error")),
                             !.at = "return", !.result = <<"dial">>]
                    ELSE IF checkPortAvailable(NodePort(i))
                    THEN [invocation EXCEPT
                             !.polls = Append(@, Poll("checkPortAvailable", "available")),
                             !.at = "waitForFireflyStart"]
                    ELSE [invocation EXCEPT
                             !.polls = Append(@, Poll("checkPortAvailable", "accepted")),
                             !.i = @ + 1]
    /\ UNCHANGED rest

\* if err := s.waitForFireflyStart(port); err != nil { return err }: the node
\* has started before the retries are used up, or it has not.
ensureFireflyNodesUp_waitForFireflyStart ==
    /\ invocation.fn = "ensureFireflyNodesUp"
    /\ invocation.at = "waitForFireflyStart"
    /\ LET port == NodePort(invocation.i)
       IN \E started \in (IF port \in listening THEN {TRUE} ELSE BOOLEAN) :
            IF started
            THEN /\ listening' = listening \cup {port}
                 /\ invocation' = [invocation EXCEPT
                       !.polls = Append(@, Poll("waitForFireflyStart", "accepted")),
                       !.i = @ + 1, !.at = "member"]
            ELSE /\ UNCHANGED listening
                 /\ invocation' = [invocation EXCEPT
                       !.polls = Append(@, Poll("waitForFireflyStart", "timeout")),
                       !.at = "return", !.result = timeoutError(port)]
    /\ UNCHANGED <<gen, disk, docker, op, options, pc, frames, ret, locals, trace,
                   result, afterInit, last, alloc, wait, reg, host>>

\* The node of a member, managed or external, starts to accept connections.
NodeListens ==
    /\ invocation.fn = "ensureFireflyNodesUp"
    /\ invocation.at = "member"
    /\ \E i \in DOMAIN invocation.Members :
         /\ NodePort(i) \notin listening
         /\ listening' = listening \cup {NodePort(i)}
    /\ UNCHANGED <<gen, disk, docker, op, options, pc, frames, ret, locals, trace,
                   result, afterInit, last, alloc, wait, reg, host, invocation>>

NodesNext ==
    \/ ensureFireflyNodesUp_member
    \/ ensureFireflyNodesUp_waitForFireflyStart
    \/ NodeListens

SpecNodes == NodesInit /\ [][NodesNext]_vars

\* ================================================================== two Starts of one stack
\* Two invocations of StartStack on one initialised stack that has never run,
\* each a process of its own (two runs of the command), interleaved step by
\* step.  They share the runtime directory, whose existence is the run-state
\* marker; hasBeenRun is the local of each.  ran is the invocations that have
\* begun first-time setup, copies the times the init tree was copied.
Invocations == {1, 2}

ConcurrentInit ==
    /\ MainInit
    /\ alloc = NoAlloc
    /\ wait = NoWait
    /\ reg = NoReg
    /\ host = NoHost
    /\ \E noRollback \in [Invocations -> BOOLEAN] :
         invocation = [fn |-> "StartStack",
                       RuntimeDir |-> FALSE,
                       NoRollback |-> noRollback,
                       at |-> [p \in Invocations |-> "StackHasRunBefore"],
                       hasBeenRun |-> [p \in Invocations |-> FALSE],
                       result |-> [p \in Invocations |-> nil],
                       ran |-> {}, copies |-> 0]

At(p, label) == invocation.fn = "StartStack" /\ invocation.at[p] = label

\* hasBeenRun, err := s.StackHasRunBefore(): os.Stat(runtimeDir)
Concurrent_StackHasRunBefore ==
    \E p \in Invocations :
       /\ At(p, "StackHasRunBefore")
       /\ invocation' = [invocation EXCEPT !.hasBeenRun[p] = invocation.RuntimeDir,
                                           !.at[p] = "if !hasBeenRun"]
       /\ UNCHANGED rest

\* A branch that looks at the marker again, in one step with the start of the
\* setup, as it would under a lock on the stack.
Concurrent_runFirstTimeSetup_locked ==
    \E p \in Invocations :
       /\ At(p, "if !hasBeenRun")
       /\ invocation' =
             IF ~invocation.hasBeenRun[p] /\ ~invocation.RuntimeDir
             THEN [invocation EXCEPT !.at[p] = "Copy", !.ran = @ \cup {p}]
             ELSE [invocation EXCEPT !.at[p] = "runStartupSequence"]
       /\ UNCHANGED rest

\* if !hasBeenRun { err := s.runFirstTimeSetup(verbose, options) ... }
Concurrent_runFirstTimeSetup ==
    \E p \in Invocations :
       /\ At(p, "if !hasBeenRun")
       /\ invocation' =
             IF ~invocation.hasBeenRun[p]
             THEN [invocation EXCEPT !.at[p] = "Copy", !.ran = @ \cup {p}]
             ELSE [invocation EXCEPT !.at[p] = "runStartupSequence"]
       /\ UNCHANGED rest

\* copy.Copy(s.Stack.InitDir, s.Stack.RuntimeDir): the runtime directory is there.
Concurrent_Copy ==
    \E p \in Invocations :
       /\ At(p, "Copy")
       /\ invocation' = [invocation EXCEPT !.RuntimeDir = TRUE, !.copies = @ + 1,
                                           !.at[p] = "setup"]
       /\ UNCHANGED rest

\* The rest of runFirstTimeSetup, and what StartStack does with its error.
Concurrent_setup ==
    \E p \in Invocations :
       /\ At(p, "setup")
       /\ \E ok \in BOOLEAN :
            invocation' =
               IF ok THEN [invocation EXCEPT !.at[p] = "runStartupSequence"]
               ELSE IF NoRollback([NoRollback |-> invocation.NoRollback[p]])
               THEN [invocation EXCEPT !.at[p] = "return", !.result[p] = <<"setup">>]
               ELSE [invocation EXCEPT !.at[p] = "ResetStack"]
       /\ UNCHANGED rest

\* resetErr := s.ResetStack(verbose): os.RemoveAll(s.Stack.RuntimeDir)
Concurrent_ResetStack ==
    \E p \in Invocations :
       /\ At(p, "ResetStack")
       /\ \E ok \in BOOLEAN :
            invocation' =
               [invocation EXCEPT
                  !.RuntimeDir = IF ok THEN FALSE ELSE @,
                  !.at[p] = "return",
                  !.result[p] = IF ok THEN <<"setup", "all changes rolled back">>
                                ELSE <<"setup", "error resetting stack">>]
       /\ UNCHANGED rest

\* err = s.runStartupSequence(...); return s.ensureFireflyNodesUp(true)
Concurrent_runStartupSequence ==
    \E p \in Invocations :
       /\ At(p, "runStartupSequence")
       /\ \E ok \in BOOLEAN :
            invocation' = [invocation EXCEPT
                              !.at[p] = "return",
                              !.result[p] = IF ok THEN nil ELSE <<"up">>]
       /\ UNCHANGED rest

ConcurrentNext ==
    \/ Concurrent_StackHasRunBefore
    \/ Concurrent_runFirstTimeSetup
    \/ Concurrent_Copy
    \/ Concurrent_setup
    \/ Concurrent_ResetStack
    \/ Concurrent_runStartupSequence

SpecConcurrent == ConcurrentInit /\ [][ConcurrentNext]_vars

\* ================================================================== file structure
\* LoadStack and ResetStack on the files of one stack directory, in the file
\* structure of this version (init and runtime subdirectories) and in the old
\* one (everything in the stack directory, the run-time data in data).  A path
\* is the sequence of its names below the stack directory; a directory is a
\* path too, the stack directory the empty one.
IsPrefix(dir, path) == Len(dir) <= Len(path) /\ SubSeq(path, 1, Len(dir)) = dir

StackFiles ==
    { {<<"stack.json">>, <<"init">>, <<"init", "docker-compose.yml">>},
      {<<"stack.json">>, <<"init">>, <<"init", "docker-compose.yml">>,
       <<"runtime">>, <<"runtime", "docker-compose.yml">>},
      {<<"stack.json">>, <<"docker-compose.yml">>},
      {<<"stack.json">>, <<"docker-compose.yml">>, <<"data">>} }

LayoutInit ==
    /\ MainInit
    /\ alloc = NoAlloc
    /\ wait = NoWait
    /\ reg = NoReg
    /\ host = NoHost
    /\ \E files \in StackFiles :
         invocation = [fn |-> "ResetStack", files |-> files, at |-> "LoadStack",
                       IsOldFileStructure |-> FALSE, InitDir |-> <<>>,
                       RuntimeDir |-> <<>>, loaded |-> {}, result |-> nil]

\* os.Stat(filepath.Join(stackDir, "init")) says the directory does not exist.
isOldFileStructure(files) == <<"init">> \notin files

\* LoadStack for a reset or a start: CheckExists, then the two directories.
Layout_LoadStack ==
    /\ invocation.fn = "ResetStack"
    /\ invocation.at = "LoadStack"
    /\ IF <<"stack.json">> \notin invocation.files
       THEN invocation' = [invocation EXCEPT !.at = "return", !.loaded = {},
                                             !.result = <<"stack does not exist">>]
       ELSE \E command \in {"down", "StartStack"} :
              invocation' =
                 [invocation EXCEPT
                    !.IsOldFileStructure = isOldFileStructure(invocation.files),
                    !.InitDir = IF isOldFileStructure(invocation.files)
                                THEN <<>> ELSE <<"init">>,
                    !.RuntimeDir = IF isOldFileStructure(invocation.files)
                                   THEN <<>> ELSE <<"runtime">>,
                    !.loaded = invocation.files,
                    !.at = command, !.result = nil]
    /\ UNCHANGED rest

\* StartStack, as far as the files go: first-time setup makes the run-time files.
Layout_StartStack ==
    /\ invocation.fn = "ResetStack"
    /\ invocation.at = "StartStack"
    /\ \E ok \in BOOLEAN :
         invocation' =
            [invocation EXCEPT
               !.files = IF ~ok THEN @
                         ELSE IF invocation.IsOldFileStructure THEN @ \cup {<<"data">>}
                         ELSE @ \cup {<<"runtime">>, <<"runtime", "docker-compose.yml">>},
               !.at = "return",
               !.result = IF ok THEN nil ELSE <<"start">>]
    /\ UNCHANGED rest

\* docker-compose -p <name> down, in InitDir
Layout_ResetStack_down ==
    /\ invocation.fn = "ResetStack"
    /\ invocation.at = "down"
    /\ \E ok \in BOOLEAN :
         invocation' = IF ok THEN [invocation EXCEPT !.at = "RemoveAll"]
                       ELSE [invocation EXCEPT !.at = "return", !.result = <<"down">>]
    /\ UNCHANGED rest

\* os.RemoveAll(s.Stack.RuntimeDir): the directory and everything below it.
Layout_ResetStack_RemoveAll ==
    /\ invocation.fn = "ResetStack"
    /\ invocation.at = "RemoveAll"
    /\ LET removed == {f \in invocation.files : ~IsPrefix(invocation.RuntimeDir, f)}
       IN \E ok \in BOOLEAN :
            IF ok
            THEN invocation' = [invocation EXCEPT !.files = removed, !.at = "Reset"]
            ELSE \E left \in {invocation.files, removed} :
                   invocation' = [invocation EXCEPT !.files = left, !.at = "return",
                                                    !.result = <<"RemoveAll">>]
    /\ UNCHANGED rest

\* s.blockchainProvider.Reset(); s.removeVolumes(verbose); return nil
Layout_ResetStack_Reset ==
    /\ invocation.fn = "ResetStack"
    /\ invocation.at = "Reset"
    /\ \E ok \in BOOLEAN :
         invocation' = [invocation EXCEPT !.at = "return",
                                          !.result = IF ok THEN nil ELSE <<"Reset">>]
    /\ UNCHANGED rest

\* The command has ended; the next one loads the stack again.
Layout_nextCommand ==
    /\ invocation.fn = "ResetStack"
    /\ invocation.at = "return"
    /\ invocation' = [invocation EXCEPT !.at = "LoadStack"]
    /\ UNCHANGED rest

LayoutNext ==
    \/ Layout_LoadStack
    \/ Layout_StartStack
    \/ Layout_ResetStack_down
    \/ Layout_ResetStack_RemoveAll
    \/ Layout_ResetStack_Reset
    \/ Layout_nextCommand

SpecLayout == LayoutInit /\ [][LayoutNext]_vars

\* ================================================================== account unlocking
\* Stack.UnlockAccounts (and GethProvider.PostStart, the same loop), one step
\* per call of gethClient.UnlockAccount and one per sleep.  attempts counts the
\* calls made for each member, unlocked is the accounts geth has unlocked.
UnlockAccounts_retries == 10

\* fmt.Errorf("unable to unlock account %s for member %s", m.Address, m.ID)
unlockError_nil(m) == nil
unlockError(m) == <<"unable to unlock account", m.Address, "for member", m.ID>>

UnlockInit ==
    /\ MainInit
    /\ alloc = NoAlloc
    /\ wait = NoWait
    /\ reg = NoReg
    /\ host = NoHost
    /\ \E n \in MemberCounts, servicesBase \in ServicesBasePorts,
          fireflyBase \in FireFlyBasePorts :
         invocation =
            [fn |-> "UnlockAccounts",
             Members |-> [i \in 1..n |->
                            IF gen = "StackManager"
                            THEN createMember(i - 1, servicesBase, fireflyBase, FALSE, 0, FALSE)
                            ELSE Stack_createMember(i - 1, servicesBase, fireflyBase, FALSE)],
             m |-> 1, retries |-> UnlockAccounts_retries, at |-> "UnlockAccount",
             attempts |-> [i \in 1..n |-> 0], slept |-> 0, unlocked |-> {},
             result |-> nil]

\* gethClient.UnlockAccount(m.Address, ...) and the branches on its error; after
\* the break, the next member with retries := 10, or `return nil`.
UnlockAccounts_UnlockAccount ==
    /\ invocation.fn = "UnlockAccounts"
    /\ invocation.at = "UnlockAccount"
    /\ LET m == invocation.m
       IN \E ok \in BOOLEAN :
            invocation' =
               IF ok
               THEN [invocation EXCEPT
                        !.attempts[m] = @ + 1,
                        !.unlocked = @ \cup {m},
                        !.m = m + 1,
                        !.retries = UnlockAccounts_retries,
                        !.at = IF m = Len(invocation.Members) THEN "return"
                               ELSE "UnlockAccount"]
               ELSE IF invocation.retries = 0
               THEN [invocation EXCEPT
                        !.attempts[m] = @ + 1,
                        !.at = "return",
                        !.result = unlockError(invocation.Members[m])]
               ELSE [invocation EXCEPT !.attempts[m] = @ + 1, !.at = "Sleep"]
    /\ UNCHANGED rest

\* time.Sleep(time.Second * 1); retries--
UnlockAccounts_Sleep ==
    /\ invocation.fn = "UnlockAccounts"
    /\ invocation.at = "Sleep"
    /\ invocation' = [invocation EXCEPT !.slept = @ + 1, !.retries = @ - 1,
                                        !.at = "UnlockAccount"]
    /\ UNCHANGED rest

UnlockNext ==
    \/ UnlockAccounts_UnlockAccount
    \/ UnlockAccounts_Sleep

SpecUnlock == UnlockInit /\ [][UnlockNext]_vars

\* ================================================================== contract deployment
\* Stack.deployContracts, one step per request to a member's connector.  A
\* request ends with an error (no connection, or a status that is not the
\* expected one) or with the expected status and a body.  calls records the
\* requests that deploy or register: the member, the call and the address the
\* call carried (register) or got back (deploy).
\* The bodies a connector sends with status 200 to a deployment: a receipt with
\* its contractAddress, an object without this field, or no JSON at all.
DeployBodies ==
    {[json |-> TRUE, contractAddress |-> <<"0xf1">>],
     [json |-> TRUE, contractAddress |-> <<"0xf2">>],
     [json |-> TRUE, contractAddress |-> <<"0xf3">>],
     [json |-> TRUE, contractAddress |-> <<>>],
     [json |-> FALSE, contractAddress |-> <<>>]}

\* var deployContractResponse *DeployContractResponseBody;
\* json.Unmarshal(responseBody, &deployContractResponse), its error dropped:
\* the pointer stays nil when the body is no JSON, a missing field stays "".
Unmarshal(body) ==
    [nil |-> ~body.json,
     ContractAddress |-> IF body.json /\ body.contractAddress # <<>>
                         THEN body.contractAddress[1] ELSE ""]

DeployInit ==
    /\ MainInit
    /\ alloc = NoAlloc
    /\ wait = NoWait
    /\ reg = NoReg
    /\ host = NoHost
    /\ \E n \in MemberCounts :
         invocation = [fn |-> "deployContracts", n |-> n, member |-> 1,
                       fireflyContractAddress |-> "", calls |-> <<>>,
                       at |-> "ReadCompiledContract", patched |-> FALSE,
                       result |-> nil]

Failed(e) == [invocation EXCEPT !.at = "return", !.result = e]

\* fireflyContract, err := contracts.ReadCompiledContract(...)
deployContracts_ReadCompiledContract ==
    /\ invocation.fn = "deployContracts"
    /\ invocation.at = "ReadCompiledContract"
    /\ \E ok \in BOOLEAN :
         invocation' = IF ok THEN [invocation EXCEPT !.at = "PublishABI"]
                       ELSE Failed(<<"ReadCompiledContract">>)
    /\ UNCHANGED rest

\* One turn of the loop up to the request that deploys or registers:
\* if fireflyContractAddress == "" { deployContract } else { registerContract },
\* each of which publishes the ABI first.
deployContracts_PublishABI ==
    /\ invocation.fn = "deployContracts"
    /\ invocation.at = "PublishABI"
    /\ \E ok \in BOOLEAN :
         invocation' =
            IF ~ok THEN Failed(<<"PublishABI">>)
            ELSE IF invocation.fireflyContractAddress = ""
            THEN [invocation EXCEPT !.at = "DeployContract"]
            ELSE [invocation EXCEPT !.at = "RegisterContract"]
    /\ UNCHANGED rest

\* Where the loop goes after a member: the next member, or the patch.
AfterMember(inv) ==
    IF inv.member = inv.n
    THEN [inv EXCEPT !.member = @ + 1, !.at = "patchConfigAndRestartFireflyNodes"]
    ELSE [inv EXCEPT !.member = @ + 1, !.at = "PublishABI"]

\* deployResponse, err := DeployContract(...); return deployResponse.ContractAddress
deployContracts_DeployContract ==
    /\ invocation.fn = "deployContracts"
    /\ invocation.at = "DeployContract"
    /\ \/ invocation' = Failed(<<"DeployContract">>)
       \/ \E body \in DeployBodies :
            LET deployResponse == Unmarshal(body)
                call(address) == [member |-> invocation.member,
                                  call |-> "DeployContract", address |-> address]
            IN invocation' =
                  IF deployResponse.nil
                  THEN [invocation EXCEPT
                           !.calls = Append(@, call("")),
                           !.at = "return",
                           !.result = <<"panic: nil pointer dereference">>]
                  ELSE AfterMember(
                          [invocation EXCEPT
                              !.calls = Append(@, call(deployResponse.ContractAddress)),
                              !.fireflyContractAddress = deployResponse.ContractAddress])
    /\ UNCHANGED rest

\* _, err = RegisterContract(ethconnectUrl, abiResponse.ID, contractAddress, ...)
deployContracts_RegisterContract ==
    /\ invocation.fn = "deployContracts"
    /\ invocation.at = "RegisterContract"
    /\ \E ok \in BOOLEAN :
         invocation' =
            IF ~ok THEN Failed(<<"RegisterContract">>)
            ELSE AfterMember(
                    [invocation EXCEPT
                        !.calls = Append(@, [member |-> invocation.member,
                                             call |-> "RegisterContract",
                                             address |-> invocation.fireflyContractAddress])])
    /\ UNCHANGED rest

\* if err := s.patchConfigAndRestartFireflyNodes(verbose, spin); err != nil
deployContracts_patchConfigAndRestartFireflyNodes ==
    /\ invocation.fn = "deployContracts"
    /\ invocation.at = "patchConfigAndRestartFireflyNodes"
    /\ \E ok \in BOOLEAN :
         invocation' = [invocation EXCEPT
                           !.patched = ok, !.at = "return",
                           !.result = IF ok THEN nil
                                      ELSE <<"patchConfigAndRestartFireflyNodes">>]
    /\ UNCHANGED rest

DeployNext ==
    \/ deployContracts_ReadCompiledContract
    \/ deployContracts_PublishABI
    \/ deployContracts_DeployContract
    \/ deployContracts_RegisterContract
    \/ deployContracts_patchConfigAndRestartFireflyNodes

SpecDeploy == DeployInit /\ [][DeployNext]_vars

\* ================================================================== genesis
\* Stack.writeGenesisJson and geth.CreateGenesisJson.  A string is the sequence
\* of its characters; a member's address is "0x" and 40 hex digits.
HexDigits == {"1", "2", "3", "4", "5", "6", "7", "8", "9", "a", "b", "c", "d", "e", "f"}

Chars(c, n) == [k \in 1..n |-> c]

GenesisInit ==
    /\ MainInit
    /\ alloc = NoAlloc
    /\ wait = NoWait
    /\ reg = NoReg
    /\ host = NoHost
    /\ \E n \in MemberCounts :
         \E digit \in [1..n -> HexDigits] :
           /\ \A i, j \in 1..n : i # j => digit[i] # digit[j]
           /\ invocation = [fn |-> "writeGenesisJson",
                            Members |-> [i \in 1..n |->
                                           [Address |-> <<"0", "x">> \o Chars(digit[i], 40)]],
                            addresses |-> <<>>, at |-> "addresses",
                            genesis |-> [ExtraData |-> <<>>, Alloc |-> {}]]

\* fmt.Sprintf("%-236s", s): s, padded on the right with spaces to 236 characters.
Sprintf236(s) == IF Len(s) >= 236 THEN s ELSE s \o Chars(" ", 236 - Len(s))

\* strings.ReplaceAll(s, old, new), for strings of one character.
ReplaceAll(s, old, new) == [k \in DOMAIN s |-> IF s[k] = old THEN new ELSE s[k]]

\* for _, address := range addresses { alloc[address] = ...; extraData = extraData + address }
RECURSIVE rangeAddresses(_, _)
rangeAddresses(genesis, addresses) ==
    IF addresses = <<>> THEN genesis
    ELSE rangeAddresses([ExtraData |-> genesis.ExtraData \o Head(addresses),
                         Alloc |-> genesis.Alloc \cup {Head(addresses)}],
                        Tail(addresses))

CreateGenesisJson(addresses) ==
    LET extraData == <<"0", "x">> \o Chars("0", 64)
        ranged == rangeAddresses([ExtraData |-> extraData, Alloc |-> {}], addresses)
    IN [ranged EXCEPT !.ExtraData = ReplaceAll(Sprintf236(@), " ", "0")]

\* addresses[i] = member.Address[2:]
writeGenesisJson_addresses ==
    /\ invocation.fn = "writeGenesisJson"
    /\ invocation.at = "addresses"
    /\ invocation' =
          [invocation EXCEPT
             !.addresses = [i \in DOMAIN invocation.Members |->
                              SubSeq(invocation.Members[i].Address, 3,
                                     Len(invocation.Members[i].Address))],
             !.at = "CreateGenesisJson"]
    /\ UNCHANGED rest

\* genesis := geth.CreateGenesisJson(addresses)
writeGenesisJson_CreateGenesisJson ==
    /\ invocation.fn = "writeGenesisJson"
    /\ invocation.at = "CreateGenesisJson"
    /\ invocation' = [invocation EXCEPT
                         !.genesis = CreateGenesisJson(invocation.addresses),
                         !.at = "return"]
    /\ UNCHANGED rest

GenesisNext ==
    \/ writeGenesisJson_addresses
    \/ writeGenesisJson_CreateGenesisJson

SpecGenesis == GenesisInit /\ [][GenesisNext]_vars

\* ================================================================== properties
\* What the properties read off a finished or running command.

\* The positions of the command's trace that record `call` made by `fn`.
CallsOf(fn, call) == {i \in DOMAIN trace : trace[i].in = fn /\ trace[i].call = call}

\* The positions of the trace that record a failed call made by `fn`.
FailedIn(fn) == {i \in DOMAIN trace : trace[i].in = fn /\ ~trace[i].ok}

\* Every invocation of ResetStack the command made, whoever made it.
ResetInvocations == {i \in DOMAIN trace : trace[i].call = "ResetStack"}

\* StartStack ran first-time setup and runFirstTimeSetup returned an error.
SetupFailed == op = "start" /\ ~hasBeenRun /\ err # nil

\* The run-state marker of either generation is absent.
NeverRun == ~StackHasRunBefore /\ ~Stack_StackHasRunBefore

\* The ports StartStack checks, in the order it checks them.
CheckedPorts ==
    IF gen = "StackManager" THEN portList(Stack)
    ELSE <<Stack.ExposedBlockchainPort>> \o Stack_allMemberPorts(Stack.Members)

\* ------------------------------------------------------------------ C1
\* C1: when runFirstTimeSetup returns an error and NoRollback is false, a finished
\* StartStack has invoked ResetStack exactly once and its error is the cause
\* followed by the outcome of the rollback: "all changes rolled back" when
\* ResetStack returned nil, "error resetting stack" and ResetStack's error otherwise.
C1_RollbackReportsCauseAndOutcome ==
    (pc = "done" /\ SetupFailed /\ ~options.NoRollback) =>
        /\ Cardinality(ResetInvocations) = 1
        /\ Len(result) > Len(err)
        /\ SubSeq(result, 1, Len(err)) = err
        /\ SubSeq(result, Len(err) + 1, Len(result)) =
              (IF ret = nil THEN <<"all changes rolled back">>
               ELSE <<"error resetting stack">> \o ret)
        /\ (ret # nil => FailedIn("ResetStack") # {})

\* A rollback whose ResetStack failed too: the error carries both causes.
C1_Witness ==
    /\ pc = "done" /\ SetupFailed /\ ~options.NoRollback
    /\ ret # nil
    /\ result = err \o <<"error resetting stack">> \o ret

C3_RollbackRestoresInitState ==
    (pc = "done" /\ SetupFailed /\ ~options.NoRollback) =>
        /\ initTree.exists
        /\ initTree = afterInit
        /\ ret = nil => (runtimeTree = NoTree /\ dataDir # "certs")

\* The setup had rewritten the manifest and patched configs before it failed.
C3_Witness ==
    /\ pc = "done" /\ SetupFailed /\ ~options.NoRollback /\ ret = nil
    /\ \E i \in CallsOf("runFirstTimeSetup", "patchFireFlyCoreConfigs") : trace[i].ok
    /\ \E i \in CallsOf("runFirstTimeSetup", "disableFireflyCoreContainers") : trace[i].ok

C5_ExactlyOnePath ==
    op = "start" =>
        ~ /\ CallsOf("StartStack", "runFirstTimeSetup") # {}
          /\ \E i \in DOMAIN trace :
               /\ trace[i].in = "StartStack"
               /\ trace[i].call \in {"runStartupSequence", "PreStart", "up", "PostStart"}

\* ------------------------------------------------------------------ C6
\* C6: in first-time setup no step executes after a step that failed.
C6_StopsAtFirstFailure ==
    \A i \in FailedIn("runFirstTimeSetup") :
        \A j \in DOMAIN trace : j > i => trace[j].in # "runFirstTimeSetup"

\* ------------------------------------------------------------------ C7
\* C7: a StartStack in whose first-time setup a step failed does not report success.
C7_NoSwallowedSetupError ==
    (pc = "done" /\ op = "start" /\ FailedIn("runFirstTimeSetup") # {}) => result # nil

\* ------------------------------------------------------------------ C8
\* C8: with NoRollback, when runFirstTimeSetup returns an error StartStack returns
\* that very error, ResetStack is not invoked and none of its steps runs, and what
\* the setup had built stays: the runtime tree it copied, the marker it wrote, the
\* containers it brought up, the volumes it filled.
C8_NoRollbackLeavesState ==
    (pc = "done" /\ SetupFailed /\ options.NoRollback) =>
        /\ result = err
        /\ ResetInvocations = {}
        /\ \A i \in DOMAIN trace : trace[i].in # "ResetStack"
        /\ (\E i \in CallsOf("runFirstTimeSetup", "Copy") : trace[i].ok)
              => runtimeTree.exists
        /\ (\E i \in CallsOf("runFirstTimeSetup", "writeDataExchangeCerts") : trace[i].ok)
              => dataDir = "certs"
        /\ (\E i \in CallsOf("runFirstTimeSetup", "up") : trace[i].ok)
              => (containers = "up" /\ volumes = AllVolumes)
        /\ (\E i \in CallsOf("runFirstTimeSetup", "FirstTimeSetup") : trace[i].ok)
              => "provider" \in volumes

\* A setup that failed after it had brought the containers up, left as it was.
C8_Witness ==
    /\ pc = "done" /\ SetupFailed /\ options.NoRollback
    /\ result = err
    /\ ~NeverRun
    /\ containers = "up"

\* ------------------------------------------------------------------ C9
\* C9: on a stack that has run before, a StartStack in which a step failed returns
\* an error and has not invoked ResetStack.
C9_SteadyFailurePropagates ==
    (pc = "done" /\ op = "start" /\ hasBeenRun /\ FailedIn("StartStack") # {}) =>
        /\ result # nil
        /\ ResetInvocations = {}

\* ------------------------------------------------------------------ C10
\* C10: after a ResetStack that returned nil the containers are gone, the volumes
\* are removed, there is no runtime tree and no marker, the provider's Reset has
\* been called, and the stack can still be loaded.
C10_ResetReturnsToPostInit ==
    (pc = "done" /\ op = "reset" /\ result = nil) =>
        /\ containers = "none"
        /\ volumes = {}
        /\ runtimeTree = NoTree
        /\ NeverRun
        /\ CheckExists
        /\ initTree = afterInit
        /\ gen = "StackManager" => (\E i \in CallsOf("ResetStack", "Reset") : trace[i].ok)


\* ------------------------------------------------------------------ C11
\* C11: a RemoveStack that returned nil has done what ResetStack does (containers
\* down, volumes removed, runtime tree deleted, the provider's Reset called) and
\* then deleted the stack directory, after which the stack cannot be loaded.
C11_RemoveResetsThenDeletes ==
    (pc = "done" /\ op = "remove" /\ result = nil) =>
        /\ containers = "none"
        /\ volumes = {}
        /\ runtimeTree = NoTree
        /\ initTree = NoTree
        /\ ~CheckExists
        /\ gen = "StackManager" => (\E i \in DOMAIN trace : trace[i].call = "Reset")
        /\ gen = "Stack" => ResetInvocations # {}

\* ------------------------------------------------------------------ C12
\* C12: a RemoveStack that follows a successful InitStack directly and returns nil
\* leaves nothing of the stack directory; CheckExists does not find the stack
\* and ListStacks does not list it.
C12_InitThenRemoveLeavesNothing ==
    (last = "init" /\ op = "remove" /\ pc = "done" /\ result = nil) =>
        /\ ~CheckExists
        /\ ListStacks = {}
        /\ initTree = NoTree
        /\ runtimeTree = NoTree
        /\ dataDir = "absent"
        /\ ~contractsDir

\* A stack removed right after its init: the directory has been deleted.
C12_Witness ==
    /\ last = "init" /\ op = "remove" /\ pc = "done" /\ result = nil
    /\ \E i \in DOMAIN trace : trace[i].call = "RemoveAll" /\ trace[i].arg = "stack"
    /\ ~CheckExists

\* ------------------------------------------------------------------ C13
\* C13: StopStack issues one `stop` and nothing else: the stack record, the init
\* and runtime trees, the marker and the volumes are as before, and containers
\* are at most stopped.  The StartStack that follows a stop of a stack that has
\* run reads the marker as present and takes the steady-state path.
C13_StopPreservesState ==
    /\ [][(pc = "idle" /\ op' = "stop") =>
            /\ disk' = disk
            /\ volumes' = volumes
            /\ containers' \in {containers, "stopped"}
            /\ Len(trace') = 1
            /\ trace'[1].call = "stop"]_vars
    /\ []((last = "stopped" /\ op = "start" /\ Len(trace) >= 2) =>
            /\ hasBeenRun
            /\ trace[2].in = "StartStack"
            /\ trace[2].call \in {"runStartupSequence", "up"})

\* A start after the stop of a running stack, on its steady-state path.
C13_Witness ==
    /\ last = "stopped" /\ op = "start" /\ Len(trace) >= 2
    /\ hasBeenRun
    /\ containers = "stopped"


\* ------------------------------------------------------------------ C14
\* C14: an InitStack that returned an error has left no stack directory, not even
\* a partial one, and no stack record: ListStacks does not report the name.
C14_FailedInitLeavesNothing ==
    (op = "init" /\ pc = "done" /\ result # nil) =>
        /\ ~initTree.exists
        /\ dataDir = "absent"
        /\ ~CheckExists
        /\ ListStacks = {}

\* ------------------------------------------------------------------ C15
\* C15: a command that loads a stack whose recorded blockchain or token provider
\* kind is not a known one ends at once with a configuration error; no command
\* runs on with a nil provider, and no init records such a kind successfully.
C15_UnrecognizedKindIsAnError ==
    LET unrecognized ==
          \/ getBlockchainProvider(Stack.BlockchainProvider) = "nil"
          \/ Len(getITokenProviders(Stack.TokenProviders)) # Len(Stack.TokenProviders)
    IN (gen = "StackManager" /\ CheckExists /\ unrecognized) =>
          /\ ~(op = "init" /\ result = nil)
          /\ op \in {"start", "stop", "reset", "remove"} =>
                (pc = "done" /\ trace = <<>> /\ result = <<"unrecognized provider kind">>)


\* ------------------------------------------------------------------ C16
\* The service ports of a member by role: the seven fixed roles, then the extras
\* (metrics when enabled, one port per token provider).
fixedRolePorts(m) ==
    <<m.ExposedFireflyAdminPort, m.ExposedConnectorPort, m.ExposedUIPort,
      m.ExposedPostgresPort, m.ExposedDataexchangePort, m.ExposedIPFSApiPort,
      m.ExposedIPFSGWPort>>
extraPorts(m) ==
    (IF m.ExposedFireflyMetricsPort # 0 THEN <<m.ExposedFireflyMetricsPort>> ELSE <<>>)
    \o m.ExposedTokensPorts
servicePorts(m) == fixedRolePorts(m) \o extraPorts(m)

\* C16: member i's service ports lie in [B+100*i, B+100*i+99], the fixed roles
\* at offsets +1..+7 and the extras at consecutive offsets from +8; no two roles
\* of a member share a port and the ports of two members are disjoint.
C16_PortsInsideOwnBlock ==
    \A i \in DOMAIN alloc.members :
        LET m == alloc.members[i]
            blockBase == alloc.servicesBase + 100 * (i - 1)
            ports == servicePorts(m)
        IN /\ \A k \in DOMAIN ports : ports[k] = blockBase + k
           /\ \A k \in DOMAIN ports : ports[k] \in blockBase..(blockBase + 99)
           /\ \A k, l \in DOMAIN ports : k # l => ports[k] # ports[l]
           /\ \A j \in DOMAIN alloc.members :
                 j # i => Range(ports) \cap Range(servicePorts(alloc.members[j])) = {}


\* ------------------------------------------------------------------ C17
\* C17: while nothing listens on the port and no dial fails, the probes number
\* at most 120, one after each 1-second sleep; the call then returns, after
\* exactly 120 probes and 120 sleeps, the timeout error that names the port and
\* reports a time within one retry period of retries x period.
C17_TimeoutAfterBudget ==
    (wait.port # 0 /\ wait.upAt = -1 /\ wait.lastProbe # "dialError") =>
        /\ wait.probes <= retries
        /\ wait.probes + wait.retriesRemaining = retries
        /\ wait.slept = retryPeriod * (wait.probes +
                           (IF wait.at = "checkPortAvailable" THEN 1 ELSE 0))
        /\ wait.at = "return" =>
              /\ wait.probes = retries
              /\ wait.slept = retries * retryPeriod
              /\ wait.result # nil
              /\ Len(wait.result) = 4
              /\ wait.result[4] = ToString(wait.port)
              /\ \E secs \in 0..(2 * retries) :
                    /\ wait.result[2] = ToString(secs)
                    /\ secs * 1000 > retries * retryPeriod - retryPeriod
                    /\ secs * 1000 < retries * retryPeriod + retryPeriod

C17_Witness ==
    /\ wait.at = "return"
    /\ wait.upAt = -1
    /\ wait.probes = 120
    /\ wait.lastProbe = "refused"
    /\ wait.result = timeoutError(wait.port)

\* ------------------------------------------------------------------ C18
\* C18: once the port has begun to accept connections, before the budget is
\* exhausted, at most one more probe is made; unless that dial itself fails, the
\* probe that follows the transition is accepted and the call returns nil with
\* no probe after it.
C18_SuccessAtNextProbe ==
    (wait.upAt >= 0 /\ wait.upAt < retries) =>
        /\ wait.probes <= wait.upAt + 1
        /\ wait.probes = wait.upAt + 1 => wait.at = "return"
        /\ (wait.at = "return" /\ wait.lastProbe # "dialError") =>
              /\ wait.result = nil
              /\ wait.lastProbe = "accepted"
              /\ wait.probes = wait.upAt + 1

C18_Witness ==
    /\ wait.at = "return"
    /\ wait.upAt = 2
    /\ wait.probes = 3
    /\ wait.lastProbe = "accepted"
    /\ wait.result = nil


\* ------------------------------------------------------------------ C19
\* C19: a StartStack on a stack that has run before returns nil only if it has
\* brought the services up, its post-start hook (PostStart, UnlockAccounts) has
\* succeeded and no wait for an external member has failed; when the wait for an
\* external member has failed it returns an error.
C19_SteadyStartAllOrError ==
    (pc = "done" /\ op = "start" /\ hasBeenRun) =>
        /\ result = nil =>
              /\ \E i \in CallsOf("StartStack", "up") : trace[i].ok
              /\ \E i \in CallsOf("StartStack", "PostStart")
                            \cup CallsOf("StartStack", "UnlockAccounts") : trace[i].ok
              /\ \A i \in CallsOf("StartStack", "ensureFireflyNodesUp") : trace[i].ok
        /\ (\E i \in CallsOf("StartStack", "ensureFireflyNodesUp") : ~trace[i].ok)
              => result # nil


\* ------------------------------------------------------------------ C20
\* C20: the members are handled in order; a member's node is registered only
\* after its organization was registered and the organization list has named
\* it; a member's list is polled at most 60 times after the first request, and
\* the call ends with an error when the polls are used up; the call returns nil
\* only if the organization and the node of every member were registered.
C20_RegistersEveryMemberOrFails ==
    reg.n > 0 =>
        /\ reg.orgs \in {1..k : k \in 0..reg.n}
        /\ reg.nodes \in {1..k : k \in 0..reg.n}
        /\ reg.nodes \subseteq reg.found
        /\ reg.found \subseteq reg.orgs
        /\ reg.retries \in 0..registerFireflyIdentities_retries
        /\ (reg.at = "return" /\ reg.member \in reg.orgs /\ reg.member \notin reg.found
              /\ reg.retries = 0) => reg.result # nil
        /\ (reg.at = "return" /\ reg.result = nil) =>
              /\ reg.orgs = 1..reg.n
              /\ reg.nodes = 1..reg.n


\* ------------------------------------------------------------------ C21
\* C21: first-time setup calls DeployFireFlyContract exactly when the stack has
\* no contract address; once it has succeeded and the setup goes on, the config
\* of every member in the runtime tree is the merge of what Init wrote with the
\* returned fragment, the leaves the fragment lacks kept; with an address there
\* is no deployment and no config differs from the one Init wrote.
C21_DeployIffNoAddressThenPatchAll ==
    (gen = "StackManager" /\ op = "start" /\ InSetup) =>
        LET deployed == CallsOf("runFirstTimeSetup", "DeployFireFlyContract")
            patched == CallsOf("runFirstTimeSetup", "patchFireFlyCoreConfigs")
        IN /\ deployed # {} => Stack.ContractAddress = ""
           /\ pc = "runFirstTimeSetup_copyFireflyConfigToContainer" =>
                 (Stack.ContractAddress = "" <=> \E i \in deployed : trace[i].ok)
           /\ patched # {} =>
                 \A m \in DOMAIN Stack.Members :
                    /\ runtimeTree.config[m] = merge(initTree.config[m], newConfig)
                    /\ \A k \in DOMAIN initTree.config[m] \ DOMAIN newConfig :
                          runtimeTree.config[m][k] = initTree.config[m][k]
           /\ (Stack.ContractAddress # "" /\ runtimeTree.exists) =>
                 /\ patched = {}
                 /\ runtimeTree.config = initTree.config


\* ------------------------------------------------------------------ C22
\* C22: whenever stack.json exists, it holds for every member the address and
\* no private key: neither a privateKey field nor the key as any other value.
C22_NoPrivateKeyInStackRecord ==
    CheckExists =>
        \A i \in DOMAIN Stack.Members :
            LET json == writeStackConfig(Stack)[i]
            IN /\ "address" \in DOMAIN json
               /\ "privateKey" \notin DOMAIN json
               /\ \A k \in DOMAIN json : json[k] # Stack.Members[i].PrivateKey


OtherUntouched(n) ==
    \A m \in Names \ {n} :
        /\ host'.dirs[StackDir(m)] = host.dirs[StackDir(m)]
        /\ host'.projects[ProjectName(m)] = host.projects[ProjectName(m)]
        /\ host'.result[m] = host.result[m]

\* A StartStack of stack n alone on the machine succeeds exactly when the
\* containers of n are not already running.
StartsAsAlone(n) ==
    /\ host'.result[n] = nil <=> host.projects[ProjectName(n)] # "up"
    /\ host'.result[n] = nil => host'.projects[ProjectName(n)] = "up"

PortsDisjoint ==
    \A n, m \in Names :
        n # m => PublishedPorts(host.dirs[StackDir(n)])
                   \cap PublishedPorts(host.dirs[StackDir(m)]) = {}

\* C24 as stated: whatever the other stack does, an operation on a stack leaves
\* the other stack as it was and ends as it would alone.
C24_Original ==
    [][\A n \in Names :
          host'.acted[2] = n =>
             /\ OtherUntouched(n)
             /\ host'.acted[1] = "start" => StartsAsAlone(n)]_vars

\* C24: an operation on a stack leaves the directory, the containers and the
\* result of the stack of the other name as they were, and a StartStack ends as
\* it would alone when the host ports of the two stacks are disjoint; the ports
\* come from the base-port options, not from the name.
C24_IndependentWhenPortsDisjoint ==
    [][\A n \in Names :
          host'.acted[2] = n =>
             /\ OtherUntouched(n)
             /\ (host'.acted[1] = "start" /\ PortsDisjoint) => StartsAsAlone(n)]_vars

\* Both stacks run at once on disjoint ports, the second started while the first ran.
C24_Witness ==
    /\ \A n \in Names : host.projects[ProjectName(n)] = "up" /\ host.result[n] = nil
    /\ PortsDisjoint
    /\ host.acted = <<"start", "b">>


\* ------------------------------------------------------------------ C25
\* C25: in the manifest Init has written, the firefly_core service of every
\* managed member depends on every service of the providers: "service_healthy"
\* if the service has a health check, "service_started" if not; a later member
\* depends on the shared services as member 0 does.
C25_CoreDependsOnEveryProviderService ==
    (gen = "StackManager" /\ CheckExists) =>
        LET services == extraServices(Stack)
            deps == initTree.dependsOn
        IN \A i \in DOMAIN Stack.Members :
              ~Stack.Members[i].External =>
                 /\ DOMAIN deps[i] = DOMAIN services
                 /\ \A k \in DOMAIN services :
                       /\ services[k].HealthCheck <=> deps[i][k] = "service_healthy"
                       /\ ~services[k].HealthCheck <=> deps[i][k] = "service_started"
                 /\ \A j \in DOMAIN Stack.Members :
                       ~Stack.Members[j].External => deps[j] = deps[i]

\* A fabric stack of two managed members: member 1 depends on fabconnect_0 by
\* its health and on fabric_ca by its start.
C25_Witness ==
    /\ gen = "StackManager" /\ CheckExists
    /\ Len(Stack.Members) >= 2
    /\ ~Stack.Members[1].External /\ ~Stack.Members[2].External
    /\ \E k \in DOMAIN extraServices(Stack) :
          /\ extraServices(Stack)[k].ServiceName = <<"fabconnect", "0">>
          /\ initTree.dependsOn[2][k] = "service_healthy"
    /\ initTree.dependsOn[2][1] = "service_started"


\* ------------------------------------------------------------------ C26
\* C26: in first-time setup every bring-up comes after the managed members'
\* entry points were replaced by the no-op in the runtime manifest; they are
\* restored only after the contract deployment and the config patching (when
\* the stack has no contract address) and the copy of the configs to the
\* volumes have succeeded; and the bring-up that follows the restoring finds
\* every member's config final, that is, patched when there was a deployment.
C26_DisabledUntilConfigFinal ==
    (gen = "StackManager" /\ op = "start" /\ InSetup) =>
        LET Ok(call) == {i \in CallsOf("runFirstTimeSetup", call) : trace[i].ok}
            ups == CallsOf("runFirstTimeSetup", "up")
            disabled == {i \in Ok("disableFireflyCoreContainers") : trace[i].arg = "runtime"}
            enabled == CallsOf("runFirstTimeSetup", "enableFireflyCoreContainers")
            Before(calls, i) == \E c \in calls : c < i
        IN /\ \A u \in ups : Before(disabled, u)
           /\ pc = "runStartupSequence_up" =>
                 \A m \in Managed(Stack) : runtimeTree.compose[m] = NoopEntryPoint
           /\ \A e \in enabled :
                 /\ Stack.ContractAddress = "" =>
                       /\ Before(Ok("DeployFireFlyContract"), e)
                       /\ Before(Ok("patchFireFlyCoreConfigs"), e)
                 /\ Managed(Stack) # {} => Before(Ok("copyFireflyConfigToContainer"), e)
           /\ (pc = "runFirstTimeSetup_up" /\ Stack.ContractAddress = "") =>
                 \A m \in DOMAIN Stack.Members :
                    runtimeTree.config[m] = merge(initTree.config[m], newConfig)


\* ------------------------------------------------------------------ C27
\* C27: once the entry points have been replaced by the no-op and restored, the
\* runtime manifest gives every managed member the entry point the manifest
\* had for it when it had one, the default when it had none; the entries of the
\* external members and the rest of the manifest are as they were.
C27_DisableEnableRestoresEntrypoints ==
    (gen = "StackManager" /\ pc = "runFirstTimeSetup_up") =>
        /\ \A m \in DOMAIN Stack.Members :
              runtimeTree.compose[m] =
                 IF Stack.Members[m].External THEN afterInit.compose[m]
                 ELSE IF afterInit.compose[m] # "" THEN afterInit.compose[m]
                 ELSE DefaultEntryPoint
        /\ runtimeTree.dependsOn = afterInit.dependsOn

\* The pair has acted on a manifest with a custom entry point for a managed
\* member and with an external member.
C27_Witness ==
    /\ gen = "StackManager" /\ pc = "runFirstTimeSetup_up"
    /\ \E m \in Managed(Stack) :
          afterInit.compose[m] = "custom" /\ runtimeTree.compose[m] = "custom"
    /\ External(Stack) # {}


\* ------------------------------------------------------------------ C28
\* C28: once first-time setup has copied the init tree, nothing it does writes
\* the init tree, and every rewrite of the manifest and every bring-up it makes,
\* the last one included, works in the runtime directory.
C28_SetupTouchesOnlyRuntime ==
    (gen = "StackManager" /\ op = "start" /\ InSetup) =>
        /\ initTree = afterInit
        /\ \A i \in DOMAIN trace :
              (/\ trace[i].in = "runFirstTimeSetup"
               /\ trace[i].call \in {"disableFireflyCoreContainers",
                                     "enableFireflyCoreContainers", "up"})
                 => trace[i].arg = "runtime"


\* ------------------------------------------------------------------ C29
\* C29: first-time setup calls DeploySmartContracts on the token providers by
\* increasing index, each after a bring-up that succeeded and before the
\* deployment of the FireFly contract, and calls their FirstTimeSetup by
\* increasing index, each after an identity registration that went through.
C29_TokenStepsInOrder ==
    (gen = "StackManager" /\ op = "start" /\ InSetup) =>
        LET In(call) == CallsOf("runFirstTimeSetup", call)
            deploys == In("DeploySmartContracts")
            setups == In("token FirstTimeSetup")
            InOrder(calls) ==
                \A i \in calls :
                   trace[i].arg = ToString(Cardinality({j \in calls : j < i}))
        IN /\ InOrder(deploys)
           /\ \A i \in deploys :
                 /\ \E u \in In("up") : u < i /\ trace[u].ok
                 /\ \A d \in In("DeployFireFlyContract") : i < d
           /\ InOrder(setups)
           /\ \A i \in setups :
                 \E r \in In("registerFireflyIdentities") : r < i /\ trace[r].ok


\* ------------------------------------------------------------------ C30
\* C30: the startup sequence calls PreStart, the detached bring-up and PostStart
\* in this order, each only after the one before it has succeeded: a bring-up
\* directly follows a PreStart that succeeded, a PostStart directly follows a
\* bring-up that succeeded, no PostStart comes after a bring-up that failed,
\* and a sequence that returns nil has made the three calls.  In the Stack
\* generation the account unlocking directly follows a bring-up that succeeded.
C30_StartupSequenceInOrder ==
    LET IsUp(i) == trace[i].call = "up" /\ trace[i].arg = "runtime"
        Follows(i, call) == i > 1 /\ trace[i - 1].call = call /\ trace[i - 1].ok
    IN /\ \A i \in DOMAIN trace :
             /\ IsUp(i) => Follows(i, "PreStart")
             /\ trace[i].call = "PostStart" => (Follows(i, "up") /\ IsUp(i - 1))
             /\ (IsUp(i) /\ ~trace[i].ok) =>
                   \A j \in DOMAIN trace : j > i => trace[j].call # "PostStart"
             /\ trace[i].call = "UnlockAccounts" =>
                   (Follows(i, "up") /\ trace[i - 1].arg = "stack")
       /\ (pc \in {"StartStack_afterStartup", "runFirstTimeSetup_afterStartup"} /\ ret = nil) =>
             /\ Len(trace) >= 3
             /\ trace[Len(trace)].call = "PostStart" /\ trace[Len(trace)].ok
             /\ trace[Len(trace) - 2].call = "PreStart"

\* A command has ended whose startup sequence failed at the bring-up.
C30_Witness ==
    /\ pc = "done"
    /\ \E i \in DOMAIN trace :
          /\ trace[i].call = "up" /\ trace[i].arg = "runtime" /\ ~trace[i].ok
          /\ i > 1 /\ trace[i - 1].call = "PreStart" /\ trace[i - 1].ok

\* ------------------------------------------------------------------ C31
\* C31: httpJSONWithRetry makes at most 31 requests, one second apart; it has
\* returned nil exactly when its last request succeeded and otherwise, after
\* the 31st, the error of that request; and it returns whatever the endpoint
\* does.
C31_Bounded ==
    invocation.fn = "httpJSONWithRetry" =>
        /\ invocation.attempts <= httpJSONWithRetry_retries + 1
        /\ invocation.at \in {"Sleep", "return"} =>
              invocation.slept = invocation.attempts - 1
        /\ (invocation.at = "return" /\ invocation.result # nil) =>
              /\ invocation.attempts = httpJSONWithRetry_retries + 1
              /\ invocation.errors = <<invocation.result>>

C31_RetryBoundedAndTerminates ==
    /\ []C31_Bounded
    /\ <>(invocation.fn = "httpJSONWithRetry" /\ invocation.at = "return")

\* ------------------------------------------------------------------ C32
\* C32: ensureFireflyNodesUp probes external members only, in member order;
\* it waits for a member only directly after it found the member's port not
\* accepting, and not at all for one whose port accepts; an error it returns is
\* that of the member it is at, met at the last probe, the timeout of the
\* bounded wait when it is the wait that failed, with no member after it
\* probed; and when it returns nil every external member has been probed.
C32_PollsExternalMembersInOrder ==
    invocation.fn = "ensureFireflyNodesUp" =>
        LET polls == invocation.polls
            n == Len(polls)
        IN /\ \A k \in 1..n : invocation.Members[polls[k].member].External
           /\ \A k \in 1..n, l \in 1..n : k < l => polls[k].member <= polls[l].member
           /\ \A k \in 1..n :
                 polls[k].call = "waitForFireflyStart" =>
                    /\ k > 1
                    /\ polls[k - 1] = [member |-> polls[k].member,
                                       call |-> "checkPortAvailable", met |-> "available"]
           /\ \A k \in 1..n :
                 (polls[k].call = "checkPortAvailable" /\ polls[k].met = "accepted") =>
                    \A l \in 1..n : polls[l].member = polls[k].member => l = k
           /\ (invocation.at = "return" /\ invocation.result # nil) =>
                 /\ n > 0
                 /\ polls[n].member = invocation.i
                 /\ polls[n].met \in {"error", "timeout"}
                 /\ polls[n].met = "timeout" =>
                       invocation.result = timeoutError(NodePort(invocation.i))
                 /\ \A k \in 1..n : polls[k].member <= invocation.i
           /\ (invocation.at = "return" /\ invocation.result = nil) =>
                 \A e \in DOMAIN invocation.Members :
                    invocation.Members[e].External =>
                       \E k \in 1..n : polls[k].member = e /\ polls[k].met = "accepted"

\* The wait for the first member has timed out; the member after it is external
\* and has not been probed.
C32_Witness ==
    /\ invocation.fn = "ensureFireflyNodesUp"
    /\ invocation.at = "return"
    /\ invocation.i = 1
    /\ Len(invocation.Members) >= 2
    /\ invocation.Members[2].External
    /\ invocation.result = timeoutError(NodePort(1))
    /\ Len(invocation.polls) = 2

\* ------------------------------------------------------------------ C33
\* C33: nothing makes the check of the marker and the start of first-time
\* setup one step: an invocation of StartStack that read the marker absent runs
\* first-time setup whatever the other invocation has done to the marker since,
\* so two invocations that both read it absent both run the setup on the one
\* runtime tree.
C33_SetupFollowsOwnReadOfMarker ==
    invocation.fn = "StartStack" =>
        \A p \in Invocations :
           /\ (invocation.at[p] \notin {"StackHasRunBefore", "if !hasBeenRun"}
               /\ ~invocation.hasBeenRun[p]) => p \in invocation.ran
           /\ p \in invocation.ran => ~invocation.hasBeenRun[p]

\* Both invocations have copied the init tree into the runtime directory and
\* are in first-time setup.
C33_Witness ==
    /\ invocation.fn = "StartStack"
    /\ invocation.ran = Invocations
    /\ invocation.copies = 2
    /\ \A p \in Invocations : invocation.at[p] = "setup"

\* ------------------------------------------------------------------ C34
\* C34: the run-state marker is present only if a first-time setup has gone
\* through since the last Reset.  A StartStack runs first-time setup only on a
\* stack without the marker, so when that setup has failed no setup has gone
\* through since the marker was last absent: at the end of such a StartStack,
\* with rollback or without, the marker is absent.
C34_MarkerOnlyAfterCompleteSetup ==
    (gen = "StackManager" /\ pc = "done" /\ SetupFailed) => ~StackHasRunBefore

\* ------------------------------------------------------------------ C35
\* C35: ResetStack on a stack that LoadStack has accepted, in the old file
\* structure as in the new, leaves stack.json and the manifest of the init
\* directory in place, and the LoadStack of the next command accepts the stack.
C35_ResetKeepsRecordAndTemplates ==
    (invocation.fn = "ResetStack" /\ invocation.loaded # {}) =>
        /\ <<"stack.json">> \in invocation.files
        /\ (invocation.InitDir \o <<"docker-compose.yml">>) \in invocation.files

\* ------------------------------------------------------------------ C36
\* C36: the host ports of a stack that Init has produced are pairwise distinct:
\* the list of the pre-flight check (the blockchain port, then every member's
\* ports, the ports that are not exposed left out) holds no port twice.
C36_PortsPairwiseDistinct ==
    (gen = "StackManager" /\ alloc.n > 0 /\ Len(alloc.members) = alloc.n) =>
        LET stack == [NoStack EXCEPT !.Members = alloc.members,
                                     !.ExposedBlockchainPort = alloc.servicesBase]
            exposed(port) == port # 0
            ports == SelectSeq(portList(stack), exposed)
        IN Cardinality(Range(ports)) = Len(ports)

\* ------------------------------------------------------------------ C37
\* C37: the account unlocking takes the members in order, a member only when
\* every member before it is unlocked; it makes at most 11 attempts for a
\* member, one second apart; it returns an error only after the 11th failed
\* attempt for a member, the error naming this member and its address, with no
\* attempt made for a later member; and it returns nil only when every
\* member's account is unlocked.
C37_UnlocksInOrderWithinElevenAttempts ==
    invocation.fn = "UnlockAccounts" =>
        LET m == invocation.m
            members == DOMAIN invocation.Members
        IN /\ \A i \in members :
                 /\ invocation.attempts[i] <= UnlockAccounts_retries + 1
                 /\ i < m => i \in invocation.unlocked
                 /\ i > m => invocation.attempts[i] = 0
           /\ m \in members =>
                 invocation.attempts[m] + invocation.retries
                    = UnlockAccounts_retries
                      + (IF invocation.at \in {"Sleep", "return"} THEN 1 ELSE 0)
           /\ (invocation.at = "return" /\ invocation.result # nil) =>
                 /\ m \in members /\ m \notin invocation.unlocked
                 /\ invocation.attempts[m] = UnlockAccounts_retries + 1
                 /\ invocation.result = <<"unable to unlock account",
                                          invocation.Members[m].Address, "for member",
                                          invocation.Members[m].ID>>
           /\ (invocation.at = "return" /\ invocation.result = nil) =>
                 invocation.unlocked = members

\* The attempts for the first of two members are used up; the second member
\* has not been attempted.
C37_Witness ==
    /\ invocation.fn = "UnlockAccounts"
    /\ invocation.at = "return" /\ invocation.result # nil
    /\ invocation.m = 1 /\ Len(invocation.Members) >= 2
    /\ invocation.attempts[1] = 11 /\ invocation.attempts[2] = 0

\* ------------------------------------------------------------------ C38
\* C38: deployContracts makes one deployment, through the first member, and
\* for every later member a registration of the address this deployment
\* returned, whatever the connectors answer with their status of success; and a
\* call that failed for a member ends the function at that member with its
\* error, the config not patched.
C38_DeployedOnceThroughFirstMember ==
    invocation.fn = "deployContracts" =>
        LET calls == invocation.calls
        IN /\ \A k \in DOMAIN calls :
                 /\ calls[k].member = k
                 /\ calls[k].call = "DeployContract" <=> k = 1
                 /\ calls[k].call = "RegisterContract" => calls[k].address = calls[1].address
           /\ invocation.result # nil =>
                 /\ Len(calls) <= invocation.member
                 /\ invocation.member <= invocation.n => ~invocation.patched
           /\ invocation.result \in {nil} \cup {<<e>> :
                 e \in {"ReadCompiledContract", "PublishABI", "DeployContract",
                        "RegisterContract", "patchConfigAndRestartFireflyNodes"}}

\* ------------------------------------------------------------------ C39
\* C39: for N members the extraData of the genesis is "0x", 64 zeros of vanity,
\* the N addresses of 40 hex digits in member order, then 130 zeros of seal,
\* 2 + 64 + 40*N + 130 characters in all; and alloc holds the N addresses and
\* nothing else.
C39_ExtraDataLayout ==
    (invocation.fn = "writeGenesisJson" /\ invocation.at = "return") =>
        LET N == Len(invocation.Members)
            extraData == invocation.genesis.ExtraData
            address(i) == SubSeq(invocation.Members[i].Address, 3, 42)
        IN /\ Len(extraData) = 2 + 64 + 40 * N + 130
           /\ SubSeq(extraData, 1, 2) = <<"0", "x">>
           /\ SubSeq(extraData, 3, 66) = Chars("0", 64)
           /\ \A i \in 1..N :
                 SubSeq(extraData, 66 + 40 * (i - 1) + 1, 66 + 40 * i) = address(i)
           /\ SubSeq(extraData, 66 + 40 * N + 1, Len(extraData)) = Chars("0", 130)
           /\ invocation.genesis.Alloc = {address(i) : i \in 1..N}
           /\ Cardinality(invocation.genesis.Alloc) = N

====
